---- MODULE Spec2Model ----
(***************************************************************************)
(* Attendance reconciliation: the value parsers, the column resolver, the  *)
(* dataset loaders of utils.py and process_attendance of processor.py.     *)
(*                                                                         *)
(* Text is modelled by TLA+ strings read character by character (Len,      *)
(* SubSeq, \o).  A table cell is what pandas.read_csv leaves in a          *)
(* DataFrame: a missing value (NaN), a string or a number.                 *)
(***************************************************************************)
EXTENDS Integers, Sequences, FiniteSets, TLC

(***************************************************************************)
(* Characters and strings                                                  *)
(***************************************************************************)
Ch(s, i) == SubSeq(s, i, i)

Digits == "0123456789"

UpperCase == "ABCDEFGHIJKLMNOPQRSTUVWXYZ"

LowerCase == "abcdefghijklmnopqrstuvwxyz"

CharsOf(alphabet) == {Ch(alphabet, i) : i \in 1..Len(alphabet)}

IndexIn(alphabet, c) == CHOOSE i \in 1..Len(alphabet) : Ch(alphabet, i) = c

DigitSet == CharsOf(Digits)

UpperSet == CharsOf(UpperCase)

LowerSet == CharsOf(LowerCase)

Punctuation == {" ", "+", "-", ".", "/", ":", "@", "_"}

\* ord(c) for the characters the tables of the model are written in
OrdTable ==
    [c \in DigitSet \cup UpperSet \cup LowerSet \cup Punctuation |->
        CASE c \in DigitSet -> 47 + IndexIn(Digits, c)
          [] c \in UpperSet -> 64 + IndexIn(UpperCase, c)
          [] c \in LowerSet -> 96 + IndexIn(LowerCase, c)
          [] c = " " -> 32
          [] c = "+" -> 43
          [] c = "-" -> 45
          [] c = "." -> 46
          [] c = "/" -> 47
          [] c = ":" -> 58
          [] c = "@" -> 64
          [] c = "_" -> 95]

Ord(c) == OrdTable[c]

IsDigit(c) == c \in DigitSet

DigitTable == [c \in DigitSet |-> IndexIn(Digits, c) - 1]

DigitVal(c) == DigitTable[c]

LowerTable == [c \in UpperSet |-> Ch(LowerCase, IndexIn(UpperCase, c))]

\* whitespace of str.strip() and of \s: the blank and the tab
IsSpace(c) == c \in {" ", "\t"}

\* str.lower() on one character
LowerCh(c) == IF c \in UpperSet THEN LowerTable[c] ELSE c

RECURSIVE LowerFrom(_, _)
LowerFrom(s, i) == IF i > Len(s) THEN "" ELSE LowerCh(Ch(s, i)) \o LowerFrom(s, i + 1)

\* str.lower()
Lower(s) == LowerFrom(s, 1)

RECURSIVE FirstNonSpace(_, _)
FirstNonSpace(s, i) ==
    IF i > Len(s) THEN i
    ELSE IF IsSpace(Ch(s, i)) THEN FirstNonSpace(s, i + 1) ELSE i

RECURSIVE LastNonSpace(_, _)
LastNonSpace(s, j) ==
    IF j < 1 THEN j
    ELSE IF IsSpace(Ch(s, j)) THEN LastNonSpace(s, j - 1) ELSE j

\* str.strip()
Strip(s) == SubSeq(s, FirstNonSpace(s, 1), LastNonSpace(s, Len(s)))

\* str.replace(old, new) for a one-character old
RECURSIVE ReplaceFrom(_, _, _, _)
ReplaceFrom(s, i, old, new) ==
    IF i > Len(s) THEN ""
    ELSE (IF Ch(s, i) = old THEN new ELSE Ch(s, i)) \o ReplaceFrom(s, i + 1, old, new)

Replace(s, old, new) == ReplaceFrom(s, 1, old, new)

\* needle in haystack
Contains(hay, needle) ==
    \E i \in 1..(Len(hay) - Len(needle) + 1) : SubSeq(hay, i, i + Len(needle) - 1) = needle

\* a < b for Python strings (code point order)
RECURSIVE StrLessFrom(_, _, _)
StrLessFrom(a, b, i) ==
    IF i > Len(a) THEN i <= Len(b)
    ELSE IF i > Len(b) THEN FALSE
    ELSE IF Ch(a, i) = Ch(b, i) THEN StrLessFrom(a, b, i + 1)
    ELSE Ord(Ch(a, i)) < Ord(Ch(b, i))

StrLess(a, b) == StrLessFrom(a, b, 1)

\* index just past the run of digits that starts at i
RECURSIVE DigitsEnd(_, _)
DigitsEnd(s, i) ==
    IF i <= Len(s) /\ IsDigit(Ch(s, i)) THEN DigitsEnd(s, i + 1) ELSE i

\* int() of the digits s[i..j-1]
RECURSIVE NatOf(_, _, _)
NatOf(s, i, j) ==
    IF j <= i THEN 0 ELSE NatOf(s, i, j - 1) * 10 + DigitVal(Ch(s, j - 1))

RECURSIVE SpacesEnd(_, _)
SpacesEnd(s, i) ==
    IF i <= Len(s) /\ IsSpace(Ch(s, i)) THEN SpacesEnd(s, i + 1) ELSE i

(***************************************************************************)
(* Cells of a DataFrame                                                    *)
(***************************************************************************)
NaN == [t |-> "nan", s |-> "", n |-> 0]

Str(s) == [t |-> "str", s |-> s, n |-> 0]

Num(n) == [t |-> "num", s |-> "", n |-> n]

\* pd.isna
IsNa(c) == c.t = "nan"

RECURSIVE NatStr(_)
NatStr(n) == IF n < 10 THEN Ch(Digits, n + 1) ELSE NatStr(n \div 10) \o Ch(Digits, (n % 10) + 1)

\* str(value) of a cell (integers only among the numbers)
PyStr(c) ==
    CASE c.t = "nan" -> "nan"
      [] c.t = "str" -> c.s
      [] OTHER -> IF c.n < 0 THEN "-" \o NatStr(0 - c.n) ELSE NatStr(c.n)

(***************************************************************************)
(* Value parsers (utils.py)                                                *)
(***************************************************************************)
\* lower() without strip()
normalize_email_unstripped(email) ==
    IF IsNa(email) \/ email.t # "str" THEN "" ELSE Lower(email.s)

\* normalize_email: "" for a missing or non-string value, else strip().lower()
normalize_email(email) ==
    IF IsNa(email) \/ email.t # "str" THEN "" ELSE Lower(Strip(email.s))

\* Durations are counted in 1/MinuteUnits of a minute, so that seconds / 60 and
\* decimal quantities with up to two fraction digits are whole numbers.
MinuteUnits == 60 * 100

\* the fraction digits s[i..j-1] in units, unit being the weight of the digit before them
RECURSIVE FracUnits(_, _, _, _)
FracUnits(s, i, j, unit) ==
    IF i >= j THEN 0
    ELSE DigitVal(Ch(s, i)) * (unit \div 10) + FracUnits(s, i + 1, j, unit \div 10)

\* index just past the regex \d+(?:\.\d+)? matched at i (i itself when it does not match)
NumberEnd(s, i) ==
    LET e == DigitsEnd(s, i)
    IN  IF e = i THEN i
        ELSE IF e <= Len(s) /\ Ch(s, e) = "." /\ DigitsEnd(s, e + 1) > e + 1
             THEN DigitsEnd(s, e + 1)
             ELSE e

\* float() of the text s[i..j-1] that \d+(?:\.\d+)? matched, in units
NumberUnits(s, i, j) ==
    LET e == DigitsEnd(s, i)
    IN  NatOf(s, i, e) * MinuteUnits + FracUnits(s, e + 1, j, MinuteUnits)

\* float(s): [ok, v]; the forms sign? digits (. digits*)? and sign? . digits+
\* (exponents, inf, nan and digit-group underscores are not in the model's cells)
PyFloat(s0) ==
    LET s == Strip(s0)
        neg == Len(s) >= 1 /\ Ch(s, 1) = "-"
        i == IF Len(s) >= 1 /\ Ch(s, 1) \in {"+", "-"} THEN 2 ELSE 1
        e == DigitsEnd(s, i)
        dot == e <= Len(s) /\ Ch(s, e) = "."
        f == IF dot THEN DigitsEnd(s, e + 1) ELSE e
        ok == /\ f = Len(s) + 1
              /\ (e > i \/ (dot /\ f > e + 1))
        mag == NatOf(s, i, e) * MinuteUnits + FracUnits(s, e + 1, f, MinuteUnits)
    IN  [ok |-> ok, v |-> IF ok THEN (IF neg THEN 0 - mag ELSE mag) ELSE 0]

\* re.match(r'^(\d+):(\d+):(\d+)$', s): [ok, h, m, sec]
MatchHMS(s) ==
    LET e1 == DigitsEnd(s, 1)
        e2 == DigitsEnd(s, e1 + 1)
        e3 == DigitsEnd(s, e2 + 1)
        ok == /\ e1 > 1 /\ e1 <= Len(s) /\ Ch(s, e1) = ":"
              /\ e2 > e1 + 1 /\ e2 <= Len(s) /\ Ch(s, e2) = ":"
              /\ e3 > e2 + 1 /\ e3 = Len(s) + 1
    IN  [ok |-> ok,
         h |-> IF ok THEN NatOf(s, 1, e1) ELSE 0,
         m |-> IF ok THEN NatOf(s, e1 + 1, e2) ELSE 0,
         sec |-> IF ok THEN NatOf(s, e2 + 1, e3) ELSE 0]

\* the two-part time read as hours:minutes
MatchMSAsHoursMinutes(s) ==
    LET e1 == DigitsEnd(s, 1)
        e2 == DigitsEnd(s, e1 + 1)
        ok == /\ e1 > 1 /\ e1 <= Len(s) /\ Ch(s, e1) = ":"
              /\ e2 > e1 + 1 /\ e2 = Len(s) + 1
    IN  [ok |-> ok,
         m |-> IF ok THEN NatOf(s, 1, e1) * 60 + NatOf(s, e1 + 1, e2) ELSE 0,
         sec |-> 0]

\* re.match(r'^(\d+):(\d+)$', s): [ok, m, sec]
MatchMS(s) ==
    LET e1 == DigitsEnd(s, 1)
        e2 == DigitsEnd(s, e1 + 1)
        ok == /\ e1 > 1 /\ e1 <= Len(s) /\ Ch(s, e1) = ":"
              /\ e2 > e1 + 1 /\ e2 = Len(s) + 1
    IN  [ok |-> ok,
         m |-> IF ok THEN NatOf(s, 1, e1) ELSE 0,
         sec |-> IF ok THEN NatOf(s, e1 + 1, e2) ELSE 0]

\* the unit pattern without \s*: the unit must follow the number at once
UnitMatchAtAdjacent(s, i, letter) ==
    LET e == NumberEnd(s, i)
    IN  e > i /\ e <= Len(s) /\ LowerCh(Ch(s, e)) = letter

\* does (\d+(?:\.\d+)?)\s*<unit letter> match at i (re.IGNORECASE)?  Every
\* alternative of (?:h|hr|hour|hours) begins with h, those of (?:m|min|...) with m.
UnitMatchAt(s, i, letter) ==
    LET e == NumberEnd(s, i)
        k == SpacesEnd(s, e)
    IN  e > i /\ k <= Len(s) /\ LowerCh(Ch(s, k)) = letter

\* re.search of the unit pattern: [ok, v] with v = float(group(1)) in units
SearchUnit(s, letter) ==
    LET hits == {i \in 1..Len(s) : UnitMatchAt(s, i, letter)}
        first == CHOOSE i \in hits : \A j \in hits : i <= j
    IN  IF hits = {} THEN [ok |-> FALSE, v |-> 0]
        ELSE [ok |-> TRUE, v |-> NumberUnits(s, first, NumberEnd(s, first))]

\* re.search(r'(\d+(?:\.\d+)?)', s): [ok, v]
SearchNumber(s) ==
    LET hits == {i \in 1..Len(s) : IsDigit(Ch(s, i))}
        first == CHOOSE i \in hits : \A j \in hits : i <= j
    IN  IF hits = {} THEN [ok |-> FALSE, v |-> 0]
        ELSE [ok |-> TRUE, v |-> NumberUnits(s, first, NumberEnd(s, first))]

\* parse_duration_to_minutes, in units of 1/MinuteUnits minute
parse_duration_to_minutes(duration_value) ==
    IF IsNa(duration_value) THEN 0
    ELSE LET duration_str == Strip(PyStr(duration_value))
             num == PyFloat(duration_str)
             hms == MatchHMS(duration_str)
             ms == MatchMS(duration_str)
             hour_match == SearchUnit(duration_str, "h")
             min_match == SearchUnit(duration_str, "m")
             num_match == SearchNumber(duration_str)
         IN  IF num.ok THEN num.v
             ELSE IF hms.ok
                  THEN hms.h * 60 * MinuteUnits + hms.m * MinuteUnits
                       + hms.sec * (MinuteUnits \div 60)
             ELSE IF ms.ok THEN ms.m * MinuteUnits + ms.sec * (MinuteUnits \div 60)
             ELSE IF hour_match.ok \/ min_match.ok
                  THEN (IF hour_match.ok THEN hour_match.v * 60 ELSE 0)
                       + (IF min_match.ok THEN min_match.v ELSE 0)
             ELSE IF num_match.ok THEN num_match.v
             ELSE 0

\* A calendar date is <<year, month, day>>; None is <<>>.
None == <<>>

IsLeap(y) == (y % 4 = 0 /\ y % 100 # 0) \/ y % 400 = 0

DaysInMonth(y, m) ==
    IF m = 2 THEN (IF IsLeap(y) THEN 29 ELSE 28)
    ELSE IF m \in {4, 6, 9, 11} THEN 30 ELSE 31

\* a calendar without leap days
ValidDateNoLeapDay(y, m, d) ==
    y >= 1 /\ y <= 9999 /\ m >= 1 /\ m <= 12
    /\ d >= 1 /\ d <= (IF m = 2 THEN 28 ELSE DaysInMonth(y, m))

\* datetime(y, m, d) raises ValueError unless the date exists
ValidDate(y, m, d) ==
    y >= 1 /\ y <= 9999 /\ m >= 1 /\ m <= 12 /\ d >= 1 /\ d <= DaysInMonth(y, m)

MonthAbbr == <<"jan", "feb", "mar", "apr", "may", "jun",
               "jul", "aug", "sep", "oct", "nov", "dec">>

MonthFull == <<"january", "february", "march", "april", "may", "june",
               "july", "august", "september", "october", "november", "december">>

IsLetter(c) == c \in UpperSet \/ c \in LowerSet

RECURSIVE LettersEnd(_, _)
LettersEnd(s, i) ==
    IF i <= Len(s) /\ IsLetter(Ch(s, i)) THEN LettersEnd(s, i + 1) ELSE i

\* the list with the month-first formats tried before the day-first ones
DateFormatsMonthFirst ==
    << <<"m", "-", "d", "-", "Y">>,
       <<"m", "/", "d", "/", "Y">>,
       <<"Y", "-", "m", "-", "d">>,
       <<"d", "-", "m", "-", "y">>,
       <<"d", "/", "m", "/", "y">>,
       <<"d", "-", "m", "-", "Y">>,
       <<"d", "/", "m", "/", "Y">>,
       <<"d", " ", "b", " ", "Y">>,
       <<"d", " ", "B", " ", "Y">>,
       <<"Y", "/", "m", "/", "d">> >>

\* the formats of parse_date, directive by directive ("d" is %d, " " is a blank, ...)
DateFormats ==
    << <<"d", "-", "m", "-", "Y">>,
       <<"d", "/", "m", "/", "Y">>,
       <<"Y", "-", "m", "-", "d">>,
       <<"d", "-", "m", "-", "y">>,
       <<"d", "/", "m", "/", "y">>,
       <<"m", "-", "d", "-", "Y">>,
       <<"m", "/", "d", "/", "Y">>,
       <<"d", " ", "b", " ", "Y">>,
       <<"d", " ", "B", " ", "Y">>,
       <<"Y", "/", "m", "/", "d">> >>

\* datetime.strptime(s, fmt).date() from position i and directive k on; None for
\* ValueError.  A numeric directive is followed by a literal or by the end of the
\* text, so it must take the whole run of digits: %d and %m one or two digits,
\* %Y four, %y two (00..68 is 20xx, 69..99 is 19xx).
RECURSIVE StrpFrom(_, _, _, _, _, _, _)
StrpFrom(s, i, fmt, k, y, m, d) ==
    IF k > Len(fmt)
    THEN IF i = Len(s) + 1 /\ ValidDate(y, m, d) THEN <<y, m, d>> ELSE None
    ELSE LET tok == fmt[k]
             e == DigitsEnd(s, i)
             w == e - i
             v == NatOf(s, i, e)
             le == LettersEnd(s, i)
             name == Lower(SubSeq(s, i, le - 1))
             names == IF tok = "b" THEN MonthAbbr ELSE MonthFull
             se == SpacesEnd(s, i)
         IN  CASE tok = "d" ->
                    IF w \in {1, 2} /\ v >= 1 /\ v <= 31
                    THEN StrpFrom(s, e, fmt, k + 1, y, m, v) ELSE None
               [] tok = "m" ->
                    IF w \in {1, 2} /\ v >= 1 /\ v <= 12
                    THEN StrpFrom(s, e, fmt, k + 1, y, v, d) ELSE None
               [] tok = "Y" ->
                    IF w = 4 THEN StrpFrom(s, e, fmt, k + 1, v, m, d) ELSE None
               [] tok = "y" ->
                    IF w = 2
                    THEN StrpFrom(s, e, fmt, k + 1, IF v < 69 THEN 2000 + v ELSE 1900 + v, m, d)
                    ELSE None
               [] tok \in {"b", "B"} ->
                    IF \E n \in 1..12 : names[n] = name
                    THEN StrpFrom(s, le, fmt, k + 1, y,
                                  CHOOSE n \in 1..12 : names[n] = name, d)
                    ELSE None
               [] tok = " " ->
                    IF se > i THEN StrpFrom(s, se, fmt, k + 1, y, m, d) ELSE None
               [] OTHER ->
                    IF i <= Len(s) /\ Ch(s, i) = tok
                    THEN StrpFrom(s, i + 1, fmt, k + 1, y, m, d) ELSE None

strptime(s, fmt) == StrpFrom(s, 1, fmt, 1, 0, 0, 0)

\* pd.to_datetime(date_str, dayfirst=True).date(): the generic parser is consulted
\* only for text every format above rejects; on the cells of the model (free text,
\* impossible dates) it raises, and parse_date returns None.
to_datetime_dayfirst(date_str) == None

\* the loop over formats: the first one that parses wins
RECURSIVE TryFormats(_, _)
TryFormats(date_str, k) ==
    IF k > Len(DateFormats) THEN to_datetime_dayfirst(date_str)
    ELSE LET parsed == strptime(date_str, DateFormats[k])
         IN  IF parsed # None THEN parsed ELSE TryFormats(date_str, k + 1)

\* parse_date
parse_date(date_value) ==
    IF IsNa(date_value) THEN None
    ELSE TryFormats(Strip(PyStr(date_value)), 1)

(***************************************************************************)
(* Tables, column mappings and the column resolver (utils.py)              *)
(*                                                                         *)
(* A DataFrame is [columns, rows]: the column names in order and, per row, *)
(* a function from column name to cell.  A file is [path, readable, df].   *)
(* A column mapping (a dict) is a function from field keys to column       *)
(* names; an optional mapping is [given, m], given = FALSE being None.     *)
(***************************************************************************)
EmptyMap == [k \in {} |-> ""]

NoMap == [given |-> FALSE, m |-> EmptyMap]

Dict(m) == [given |-> TRUE, m |-> m]

Keys(m) == DOMAIN m

\* d[k] = v on a dict
SetItem(m, k, v) == [x \in (DOMAIN m) \cup {k} |-> IF x = k THEN v ELSE m[x]]

HasColumn(df, c) == \E i \in 1..Len(df.columns) : df.columns[i] = c

\* read_csv_safe: (df, None) or (None, message)
read_csv_safe(file) ==
    IF file.readable THEN [ok |-> TRUE, df |-> file.df, err |-> ""]
    ELSE [ok |-> FALSE, df |-> [columns |-> <<>>, rows |-> <<>>],
          err |-> "Error reading file: " \o file.path]

\* the chain with an if for each rule: a header may fill several keys
RegistrationRuleEveryKey(col_map, col) ==
    LET col_lower == Strip(Lower(col))
        m1 == IF Contains(col_lower, "email") /\ "Email" \notin Keys(col_map)
              THEN SetItem(col_map, "Email", col) ELSE col_map
        m2 == IF (Contains(col_lower, "training date") \/ Contains(col_lower, "training_date"))
                 /\ "Training date" \notin Keys(m1)
              THEN SetItem(m1, "Training date", col) ELSE m1
        m3 == IF Contains(col_lower, "attendance") /\ Contains(col_lower, "day 1")
                 /\ "Attendance - Day 1" \notin Keys(m2)
              THEN SetItem(m2, "Attendance - Day 1", col) ELSE m2
        m4 == IF Contains(col_lower, "attendance") /\ Contains(col_lower, "day 2")
                 /\ "Attendance - Day 2" \notin Keys(m3)
              THEN SetItem(m3, "Attendance - Day 2", col) ELSE m3
        m5 == IF (col_lower = "name" \/ col_lower = "participant name")
                 /\ "Name" \notin Keys(m4)
              THEN SetItem(m4, "Name", col) ELSE m4
    IN  IF (Contains(col_lower, "version") \/ Contains(col_lower, "program"))
           /\ "Version" \notin Keys(m5)
        THEN SetItem(m5, "Version", col) ELSE m5

\* one iteration of the loop of detect_registration_columns: the if/elif chain
RegistrationRule(col_map, col) ==
    LET col_lower == Strip(Lower(col))
    IN  IF Contains(col_lower, "email") /\ "Email" \notin Keys(col_map)
        THEN SetItem(col_map, "Email", col)
        ELSE IF (Contains(col_lower, "training date") \/ Contains(col_lower, "training_date"))
                /\ "Training date" \notin Keys(col_map)
        THEN SetItem(col_map, "Training date", col)
        ELSE IF Contains(col_lower, "attendance") /\ Contains(col_lower, "day 1")
                /\ "Attendance - Day 1" \notin Keys(col_map)
        THEN SetItem(col_map, "Attendance - Day 1", col)
        ELSE IF Contains(col_lower, "attendance") /\ Contains(col_lower, "day 2")
                /\ "Attendance - Day 2" \notin Keys(col_map)
        THEN SetItem(col_map, "Attendance - Day 2", col)
        ELSE IF (col_lower = "name" \/ col_lower = "participant name")
                /\ "Name" \notin Keys(col_map)
        THEN SetItem(col_map, "Name", col)
        ELSE IF (Contains(col_lower, "version") \/ Contains(col_lower, "program"))
                /\ "Version" \notin Keys(col_map)
        THEN SetItem(col_map, "Version", col)
        ELSE col_map

RECURSIVE DetectRegistrationFrom(_, _, _)
DetectRegistrationFrom(columns, i, col_map) ==
    IF i > Len(columns) THEN col_map
    ELSE DetectRegistrationFrom(columns, i + 1, RegistrationRule(col_map, columns[i]))

detect_registration_columns(df) == DetectRegistrationFrom(df.columns, 1, EmptyMap)

\* one iteration of the loop of detect_zoom_columns
ZoomRule(col_map, col) ==
    LET col_lower == Strip(Lower(col))
    IN  IF Contains(col_lower, "email") /\ "Email" \notin Keys(col_map)
        THEN SetItem(col_map, "Email", col)
        ELSE IF Contains(col_lower, "duration") /\ "Duration" \notin Keys(col_map)
        THEN SetItem(col_map, "Duration", col)
        ELSE IF Contains(col_lower, "name") /\ "Name" \notin Keys(col_map)
        THEN SetItem(col_map, "Name", col)
        ELSE col_map

RECURSIVE DetectZoomFrom(_, _, _)
DetectZoomFrom(columns, i, col_map) ==
    IF i > Len(columns) THEN col_map
    ELSE DetectZoomFrom(columns, i + 1, ZoomRule(col_map, columns[i]))

detect_zoom_columns(df) == DetectZoomFrom(df.columns, 1, EmptyMap)

(***************************************************************************)
(* Dataset loaders (utils.py)                                              *)
(***************************************************************************)
RegistrationRequired == <<"Email", "Training date">>

ZoomRequired == <<"Email", "Duration">>

\* [r for r in required if r not in col_map]
RECURSIVE MissingFrom(_, _, _)
MissingFrom(required, i, col_map) ==
    IF i > Len(required) THEN <<>>
    ELSE (IF required[i] \notin Keys(col_map) THEN <<required[i]>> ELSE <<>>)
         \o MissingFrom(required, i + 1, col_map)

\* only the first absent required key
MissingFirstOnly(required, col_map) ==
    LET all == MissingFrom(required, 1, col_map)
    IN  IF Len(all) > 1 THEN <<all[1]>> ELSE all

Missing(required, col_map) == MissingFrom(required, 1, col_map)

\* ', '.join(words)
RECURSIVE Join(_)
Join(words) ==
    IF Len(words) = 0 THEN ""
    ELSE IF Len(words) = 1 THEN words[1]
    ELSE words[1] \o ", " \o Join(Tail(words))

\* the result of a loader: (df, col_map) when ok, (None, err) otherwise
LoadFailed(err) ==
    [ok |-> FALSE, err |-> err, df |-> [columns |-> <<>>, rows |-> <<>>], col_map |-> EmptyMap]

Loaded(df, col_map) == [ok |-> TRUE, err |-> "", df |-> df, col_map |-> col_map]

load_registration_csv(file, col_map_override) ==
    LET rd == read_csv_safe(file)
        col_map == IF col_map_override.given THEN col_map_override.m
                   ELSE detect_registration_columns(rd.df)
        missing == Missing(RegistrationRequired, col_map)
    IN  IF ~rd.ok THEN LoadFailed(rd.err)
        ELSE IF Len(missing) > 0
             THEN LoadFailed("Missing required columns: " \o Join(missing))
             ELSE Loaded(rd.df, col_map)

load_zoom_csv(file, col_map_override) ==
    LET rd == read_csv_safe(file)
        col_map == IF col_map_override.given THEN col_map_override.m
                   ELSE detect_zoom_columns(rd.df)
        missing == Missing(ZoomRequired, col_map)
    IN  IF ~rd.ok THEN LoadFailed(rd.err)
        ELSE IF Len(missing) > 0
             THEN LoadFailed("Missing required columns in Zoom CSV: " \o Join(missing))
             ELSE Loaded(rd.df, col_map)

(***************************************************************************)
(* DataFrame operations used by process_attendance                         *)
(***************************************************************************)
NRows(df) == Len(df.rows)

\* df[c] = values (values[i] for row i): overwrites column c, or appends it
SetColumn(df, c, values) ==
    [columns |-> IF HasColumn(df, c) THEN df.columns ELSE Append(df.columns, c),
     rows |-> [i \in 1..NRows(df) |-> SetItem(df.rows[i], c, values[i])]]

\* df.at[idx, c] = v
SetAt(df, idx, c, v) ==
    [df EXCEPT !.rows[idx] = SetItem(df.rows[idx], c, v)]

\* the table kept as it is
DropNothing(df, names) == df

\* df.drop(columns=names, errors='ignore')
DropColumns(df, names) ==
    [columns |-> SelectSeq(df.columns, LAMBDA c : c \notin names),
     rows |-> [i \in 1..NRows(df) |->
                  [c \in (DOMAIN df.rows[i]) \ names |-> df.rows[i][c]]]]

\* one cell through .fillna("").astype(str)
FillnaAstypeStr(c) == IF IsNa(c) THEN Str("") ELSE Str(PyStr(c))

Pad2(n) == IF n < 10 THEN "0" \o NatStr(n) ELSE NatStr(n)

Pad4(n) ==
    IF n < 10 THEN "000" \o NatStr(n)
    ELSE IF n < 100 THEN "00" \o NatStr(n)
    ELSE IF n < 1000 THEN "0" \o NatStr(n) ELSE NatStr(n)

\* date.strftime('%d-%m-%Y') and date.strftime('%Y-%m-%d')
StrfDMY(date) == Pad2(date[3]) \o "-" \o Pad2(date[2]) \o "-" \o Pad4(date[1])

StrfYMD(date) == Pad4(date[1]) \o "-" \o Pad2(date[2]) \o "-" \o Pad2(date[3])

RECURSIVE LastSlash(_, _)
LastSlash(path, i) ==
    IF i < 1 THEN 0 ELSE IF Ch(path, i) = "/" THEN i ELSE LastSlash(path, i - 1)

\* os.path.dirname for a relative POSIX path
DirName(path) == SubSeq(path, 1, LastSlash(path, Len(path)) - 1)

\* os.path.join(dir, filename)
PathJoin(dir, filename) ==
    IF dir = "" \/ Ch(dir, Len(dir)) = "/" THEN dir \o filename
    ELSE dir \o "/" \o filename

\* sorted(S) for a set of strings
RECURSIVE Sorted(_)
Sorted(S) ==
    IF S = {} THEN <<>>
    ELSE LET least == CHOOSE x \in S : \A y \in S \ {x} : StrLess(x, y)
         IN  <<least>> \o Sorted(S \ {least})

(***************************************************************************)
(* process_attendance (processor.py)                                       *)
(***************************************************************************)
\* AttendanceResult()
AttendanceResult ==
    [total_registrations |-> 0,
     total_zoom_participants |-> 0,
     matched_present |-> 0,
     matched_below_threshold |-> 0,
     not_found_in_zoom |-> 0,
     unmatched_zoom_emails |-> <<>>,
     output_filepath |-> "",
     errors |-> <<>>,
     warnings |-> <<>>]

\* the loads with the participation log examined before the roster
LoadStageZoomFirst(reg_file, zoom_file, reg_col_map_override, zoom_col_map_override) ==
    LET reg_data == load_registration_csv(reg_file, reg_col_map_override)
        zoom_data == load_zoom_csv(zoom_file, zoom_col_map_override)
    IN  IF ~zoom_data.ok
        THEN [reg_data |-> reg_data, zoom_called |-> TRUE, zoom_data |-> zoom_data,
              errors |-> <<"Zoom CSV: " \o zoom_data.err>>]
        ELSE IF ~reg_data.ok
        THEN [reg_data |-> reg_data, zoom_called |-> TRUE, zoom_data |-> zoom_data,
              errors |-> <<"Registration CSV: " \o reg_data.err>>]
        ELSE [reg_data |-> reg_data, zoom_called |-> TRUE, zoom_data |-> zoom_data,
              errors |-> <<>>]

\* Step 1: the two loads and the early returns.  [reg_data, zoom_data, errors];
\* load_zoom_csv is not called (zoom_called = FALSE) when the roster fails.
LoadStage(reg_file, zoom_file, reg_col_map_override, zoom_col_map_override) ==
    LET reg_data == load_registration_csv(reg_file, reg_col_map_override)
        zoom_data == load_zoom_csv(zoom_file, zoom_col_map_override)
    IN  IF ~reg_data.ok
        THEN [reg_data |-> reg_data, zoom_called |-> FALSE, zoom_data |-> LoadFailed(""),
              errors |-> <<"Registration CSV: " \o reg_data.err>>]
        ELSE IF ~zoom_data.ok
        THEN [reg_data |-> reg_data, zoom_called |-> TRUE, zoom_data |-> zoom_data,
              errors |-> <<"Zoom CSV: " \o zoom_data.err>>]
        ELSE [reg_data |-> reg_data, zoom_called |-> TRUE, zoom_data |-> zoom_data,
              errors |-> <<>>]

\* Step 2: the attendance column key of the day
AttColKey(attendance_day) ==
    IF attendance_day = 1 THEN "Attendance - Day 1" ELSE "Attendance - Day 2"

\* Step 2: the key is not in the mapping: reg_df[att_col_name] = "" and the key
\* is registered in the mapping
CreateColumn(reg_df, reg_col_map, attendance_day) ==
    LET att_col_key == AttColKey(attendance_day)
        att_col_name == "Attendance - Day " \o NatStr(attendance_day)
    IN  IF att_col_key \notin Keys(reg_col_map)
        THEN [reg_df |-> SetColumn(reg_df, att_col_name, [i \in 1..NRows(reg_df) |-> Str("")]),
              reg_col_map |-> SetItem(reg_col_map, att_col_key, att_col_name)]
        ELSE [reg_df |-> reg_df, reg_col_map |-> reg_col_map]

\* reg_df[att_col_name] = reg_df[att_col_name].fillna("").astype(str)
CoerceColumn(reg_df, att_col_name) ==
    SetColumn(reg_df, att_col_name,
              [i \in 1..NRows(reg_df) |-> FillnaAstypeStr(reg_df.rows[i][att_col_name])])

\* the key column filled with the raw text of the e-mail cells
NormalizeEmailsRaw(df, email_col) ==
    SetColumn(df, "_normalized_email",
              [i \in 1..NRows(df) |->
                  IF df.rows[i][email_col].t = "str" THEN df.rows[i][email_col].s ELSE ""])

\* df['_normalized_email'] = df[email_col].apply(normalize_email)
NormalizeEmails(df, email_col) ==
    SetColumn(df, "_normalized_email",
              [i \in 1..NRows(df) |-> normalize_email(df.rows[i][email_col])])

\* reg_df['_parsed_date'] = reg_df[date_col].apply(parse_date)
ParseDates(reg_df, date_col) ==
    SetColumn(reg_df, "_parsed_date",
              [i \in 1..NRows(reg_df) |-> parse_date(reg_df.rows[i][date_col])])

\* the program filter is applied: `program_filter and program_filter != "All"
\* and 'Version' in reg_col_map` (None and "" are both falsy: "" stands for None)
FilterApplied(program_filter, reg_col_map) ==
    program_filter # "" /\ program_filter # "All" /\ "Version" \in Keys(reg_col_map)

\* Step 4: filtered_indices, the row indices date_mask selects
FilteredIndices(reg_df, reg_col_map, selected_date, program_filter) ==
    {i \in 1..NRows(reg_df) :
        /\ reg_df.rows[i]["_parsed_date"] = selected_date
        /\ FilterApplied(program_filter, reg_col_map) =>
              Strip(PyStr(reg_df.rows[i][reg_col_map["Version"]])) = program_filter}

\* the `program_filter and program_filter != "All"` of the warning and the file name
ProgramNamed(program_filter) == program_filter # "" /\ program_filter # "All"

\* the warning without the program
NoRegistrationsWarningDateOnly(selected_date, program_filter) ==
    "No registrations found for date " \o StrfDMY(selected_date)

\* the warning of a run without registrations
NoRegistrationsWarning(selected_date, program_filter) ==
    "No registrations found for date " \o StrfDMY(selected_date)
    \o (IF ProgramNamed(program_filter)
        THEN " and program '" \o program_filter \o "'" ELSE "")

\* zoom_df['_duration_minutes'] = zoom_df[duration_col].apply(parse_duration_to_minutes)
ParseDurations(zoom_df, duration_col) ==
    SetColumn(zoom_df, "_duration_minutes",
              [i \in 1..NRows(zoom_df) |-> parse_duration_to_minutes(zoom_df.rows[i][duration_col])])

\* the longest record of each identity instead of the sum of its records
RECURSIVE GroupMaxFrom(_, _, _)
GroupMaxFrom(zoom_df, i, acc) ==
    IF i > NRows(zoom_df) THEN acc
    ELSE LET email == zoom_df.rows[i]["_normalized_email"]
             minutes == zoom_df.rows[i]["_duration_minutes"]
         IN  GroupMaxFrom(zoom_df, i + 1,
                 SetItem(acc, email,
                         IF email \in Keys(acc) /\ acc[email] > minutes THEN acc[email]
                         ELSE minutes))

\* groupby('_normalized_email')['_duration_minutes'].sum() over the rows i..
RECURSIVE GroupSumFrom(_, _, _)
GroupSumFrom(zoom_df, i, acc) ==
    IF i > NRows(zoom_df) THEN acc
    ELSE LET email == zoom_df.rows[i]["_normalized_email"]
             minutes == zoom_df.rows[i]["_duration_minutes"]
         IN  GroupSumFrom(zoom_df, i + 1,
                 SetItem(acc, email,
                         IF email \in Keys(acc) THEN acc[email] + minutes ELSE minutes))

\* d.pop(k, None)
Pop(d, k) == [x \in (DOMAIN d) \ {k} |-> d[x]]

\* zoom_dict built from the last record of each identity instead of their sum
ZoomDictLastRecord(zoom_df) ==
    LET emails == {zoom_df.rows[i]["_normalized_email"] : i \in 1..NRows(zoom_df)}
        last(e) == CHOOSE i \in 1..NRows(zoom_df) :
                      /\ zoom_df.rows[i]["_normalized_email"] = e
                      /\ \A k \in (i + 1)..NRows(zoom_df) :
                            zoom_df.rows[k]["_normalized_email"] # e
    IN  Pop([e \in emails |-> zoom_df.rows[last(e)]["_duration_minutes"]], "")

\* zoom_dict with the entry of the empty identity left in
ZoomDictKeepingBlank(zoom_df) == GroupSumFrom(zoom_df, 1, EmptyMap)

\* Step 5: zoom_dict, the summed duration per identity without the empty identity
ZoomDict(zoom_df) == Pop(GroupSumFrom(zoom_df, 1, EmptyMap), "")

\* the loop body without the counter of the rows of blank identity
MarkRowBlankUncounted(st, idx, att_col_name, zoom_dict, min_duration) ==
    LET email == st.reg_df.rows[idx]["_normalized_email"]
        r == st.result
        mark == IF email \in Keys(zoom_dict) /\ zoom_dict[email] >= min_duration * MinuteUnits
                THEN "Y" ELSE "N"
    IN  [reg_df |-> SetAt(st.reg_df, idx, att_col_name, Str(mark)),
         result |-> IF email = "" THEN r
                    ELSE IF mark = "Y" THEN [r EXCEPT !.matched_present = @ + 1]
                    ELSE IF email \in Keys(zoom_dict)
                    THEN [r EXCEPT !.matched_below_threshold = @ + 1]
                    ELSE [r EXCEPT !.not_found_in_zoom = @ + 1]]

\* Step 6, one iteration of the loop: the mark of row idx and its counter
MarkRow(st, idx, att_col_name, zoom_dict, min_duration) ==
    LET email == st.reg_df.rows[idx]["_normalized_email"]
        r == st.result
    IN  IF email = ""
        THEN [reg_df |-> SetAt(st.reg_df, idx, att_col_name, Str("N")),
              result |-> [r EXCEPT !.not_found_in_zoom = @ + 1]]
        ELSE IF email \in Keys(zoom_dict)
        THEN IF zoom_dict[email] >= min_duration * MinuteUnits
             THEN [reg_df |-> SetAt(st.reg_df, idx, att_col_name, Str("Y")),
                   result |-> [r EXCEPT !.matched_present = @ + 1]]
             ELSE [reg_df |-> SetAt(st.reg_df, idx, att_col_name, Str("N")),
                   result |-> [r EXCEPT !.matched_below_threshold = @ + 1]]
        ELSE [reg_df |-> SetAt(st.reg_df, idx, att_col_name, Str("N")),
              result |-> [r EXCEPT !.not_found_in_zoom = @ + 1]]

\* Step 6: `for idx in filtered_indices`, in index order from idx on
RECURSIVE MarkFrom(_, _, _, _, _, _)
MarkFrom(st, idx, filtered_indices, att_col_name, zoom_dict, min_duration) ==
    IF idx > NRows(st.reg_df) THEN st
    ELSE MarkFrom(IF idx \in filtered_indices
                  THEN MarkRow(st, idx, att_col_name, zoom_dict, min_duration)
                  ELSE st,
                  idx + 1, filtered_indices, att_col_name, zoom_dict, min_duration)

\* every aggregate key listed as unmatched
UnmatchedAllKeys(reg_df, filtered_indices, zoom_dict) == Sorted(Keys(zoom_dict))

\* the unmatched list computed against every roster row, in scope or not
UnmatchedOfWholeRoster(reg_df, filtered_indices, zoom_dict) ==
    LET reg_emails == {reg_df.rows[idx]["_normalized_email"] : idx \in 1..NRows(reg_df)}
    IN  Sorted({email \in Keys(zoom_dict) : email \notin reg_emails})

\* Step 6b: the identities of the log that no in-scope row carries, sorted
UnmatchedZoomEmails(reg_df, filtered_indices, zoom_dict) ==
    LET reg_emails_for_date ==
            {reg_df.rows[idx]["_normalized_email"] : idx \in
                {i \in filtered_indices : reg_df.rows[i]["_normalized_email"] # ""}}
    IN  Sorted({email \in Keys(zoom_dict) : email \notin reg_emails_for_date})

\* Step 7: the file name of the output
OutputFilename(selected_date, attendance_day, program_filter) ==
    LET date_str == StrfYMD(selected_date)
        day_str == "Day" \o NatStr(attendance_day)
        program_str == IF ProgramNamed(program_filter) THEN "_" \o program_filter ELSE ""
    IN  "attendance_output_" \o date_str \o "_" \o day_str
        \o Replace(Replace(program_str, " ", "_"), "/", "-") \o ".csv"

\* a failed write that reports the error on a fresh result
SaveOutputDiscarding(result, output_path, write_ok) ==
    IF write_ok THEN [result EXCEPT !.output_filepath = output_path]
    ELSE [AttendanceResult EXCEPT !.errors = <<"Error saving output: " \o output_path>>]

\* Step 7: the try/except around to_csv; write_ok is whether to_csv succeeds
SaveOutput(result, output_path, write_ok) ==
    IF write_ok THEN [result EXCEPT !.output_filepath = output_path]
    ELSE [result EXCEPT !.errors = Append(@, "Error saving output: " \o output_path)]

NoDf == [columns |-> <<>>, rows |-> <<>>]

\* How an invocation ends: it returns `result` or raises; reg_col_map_after is the
\* caller's roster mapping object after the call, output_df the table handed to
\* to_csv, written the path of the file to_csv wrote ("" when none); the locals
\* filtered_indices and att_col_name and the results of the loaders are kept.
Ended(outcome, result, reg_col_map_after, output_df, written, filtered_indices, att_col_name, ld) ==
    [outcome |-> outcome, result |-> result, reg_col_map_after |-> reg_col_map_after,
     output_df |-> output_df, written |-> written, filtered_indices |-> filtered_indices,
     att_col_name |-> att_col_name, reg_data |-> [ok |-> ld.reg_data.ok, err |-> ld.reg_data.err,
                                                   col_map |-> ld.reg_data.col_map],
     zoom_called |-> ld.zoom_called,
     zoom_data |-> [ok |-> ld.zoom_data.ok, err |-> ld.zoom_data.err,
                    col_map |-> ld.zoom_data.col_map]]

\* the caller's roster mapping object: with an override the loader returns the
\* caller's dict itself, so the locals' reg_col_map is that object
CallerMap(f) ==
    IF f.reg_col_map_override.given THEN Dict(f.reg_col_map) ELSE f.reg_col_map_override

\* a column the mapping names is not in the table: KeyError leaves the function
RaiseKeyError(f) ==
    Ended("raised", AttendanceResult, CallerMap(f), NoDf, "", {}, "", f.ld)

\* Step 7: the working columns are dropped, the table is written, the result returned
Step7(f) ==
    LET output_df == DropColumns(f.reg_df, {"_normalized_email", "_parsed_date"})
        output_dir == DirName(f.reg_file.path)
        output_path ==
            PathJoin(output_dir,
                     OutputFilename(f.p.selected_date, f.p.attendance_day, f.p.program_filter))
    IN  Ended("returned", SaveOutput(f.result, output_path, f.write_ok), CallerMap(f),
              output_df, IF f.write_ok THEN output_path ELSE "",
              f.filtered_indices, f.att_col_name, f.ld)

\* Steps 6 and 6b: the marks, the counters and the unmatched identities
Step6(f) ==
    LET marked == MarkFrom([reg_df |-> f.reg_df, result |-> f.result], 1, f.filtered_indices,
                           f.att_col_name, f.zoom_dict, f.p.min_duration)
    IN  Step7([f EXCEPT !.reg_df = marked.reg_df,
                        !.result = [marked.result EXCEPT !.unmatched_zoom_emails =
                                       UnmatchedZoomEmails(marked.reg_df, f.filtered_indices,
                                                           f.zoom_dict)]])

\* Step 5: the durations and zoom_dict
Step5(f) ==
    LET duration_col_zoom == f.zoom_col_map["Duration"]
        zoom_dict == ZoomDict(ParseDurations(f.zoom_df, duration_col_zoom))
    IN  IF ~HasColumn(f.zoom_df, duration_col_zoom) THEN RaiseKeyError(f)
        ELSE Step6([f EXCEPT !.zoom_dict = zoom_dict,
                             !.result.total_zoom_participants = Cardinality(Keys(zoom_dict))])

\* Step 4, the filter: filtered_indices, total_registrations and the warning
Step4Filter(f) ==
    LET filtered_indices ==
            FilteredIndices(f.reg_df, f.reg_col_map, f.p.selected_date, f.p.program_filter)
    IN  IF FilterApplied(f.p.program_filter, f.reg_col_map)
           /\ ~HasColumn(f.reg_df, f.reg_col_map["Version"])
        THEN RaiseKeyError(f)
        ELSE Step5([f EXCEPT !.filtered_indices = filtered_indices,
                             !.result.total_registrations = Cardinality(filtered_indices),
                             !.result.warnings =
                                 IF Cardinality(filtered_indices) = 0
                                 THEN <<NoRegistrationsWarning(f.p.selected_date,
                                                               f.p.program_filter)>>
                                 ELSE <<>>])

\* Step 4, the dates
Step4(f) ==
    LET date_col == f.reg_col_map["Training date"]
    IN  IF ~HasColumn(f.reg_df, date_col) THEN RaiseKeyError(f)
        ELSE Step4Filter([f EXCEPT !.reg_df = ParseDates(f.reg_df, date_col)])

\* Step 3: the normalized identities of both tables
Step3(f) ==
    LET email_col_reg == f.reg_col_map["Email"]
        email_col_zoom == f.zoom_col_map["Email"]
    IN  IF ~HasColumn(f.reg_df, email_col_reg) \/ ~HasColumn(f.zoom_df, email_col_zoom)
        THEN RaiseKeyError(f)
        ELSE Step4([f EXCEPT !.reg_df = NormalizeEmails(f.reg_df, email_col_reg),
                             !.zoom_df = NormalizeEmails(f.zoom_df, email_col_zoom)])

\* Step 2, after the key is registered: the attendance column is made text
Step2Coerce(f) ==
    LET att_col_name == f.reg_col_map[AttColKey(f.p.attendance_day)]
    IN  IF ~HasColumn(f.reg_df, att_col_name) THEN RaiseKeyError(f)
        ELSE Step3([f EXCEPT !.att_col_name = att_col_name,
                             !.reg_df = CoerceColumn(f.reg_df, att_col_name)])

\* Step 2: the attendance column of the day
Step2(f) ==
    LET created == CreateColumn(f.reg_df, f.reg_col_map, f.p.attendance_day)
    IN  Step2Coerce([f EXCEPT !.reg_df = created.reg_df, !.reg_col_map = created.reg_col_map])

\* the locals of process_attendance after Step 1
Locals(ld, reg_file, p, reg_col_map_override, write_ok) ==
    [reg_file |-> reg_file, p |-> p, write_ok |-> write_ok,
     reg_col_map_override |-> reg_col_map_override, ld |-> ld,
     reg_df |-> ld.reg_data.df, reg_col_map |-> ld.reg_data.col_map,
     zoom_df |-> ld.zoom_data.df, zoom_col_map |-> ld.zoom_data.col_map,
     att_col_name |-> "", filtered_indices |-> {}, zoom_dict |-> EmptyMap,
     result |-> AttendanceResult]

\* Step 1: a failed load returns at once with its error
Step1(ld, reg_file, p, reg_col_map_override, write_ok) ==
    IF Len(ld.errors) > 0
    THEN Ended("returned", [AttendanceResult EXCEPT !.errors = ld.errors],
               reg_col_map_override, NoDf, "", {}, "", ld)
    ELSE Step2(Locals(ld, reg_file, p, reg_col_map_override, write_ok))

\* process_attendance(reg_filepath, zoom_filepath, selected_date, attendance_day,
\*                    program_filter, min_duration, output_dir=None,
\*                    reg_col_map_override, zoom_col_map_override)
\* p carries selected_date, attendance_day, program_filter and min_duration;
\* write_ok is whether to_csv succeeds.
process_attendance(reg_file, zoom_file, p, reg_col_map_override, zoom_col_map_override, write_ok) ==
    Step1(LoadStage(reg_file, zoom_file, reg_col_map_override, zoom_col_map_override),
          reg_file, p, reg_col_map_override, write_ok)

(***************************************************************************)
(* The inputs of the model                                                 *)
(***************************************************************************)
MaxRosterRows == 2

MaxZoomRows == 2

RegColumns == <<"Email", "Training Date", "Version", "Attendance - Day 1">>

\* a roster whose headers the resolver cannot map to Email
RegColumnsNoEmail == <<"Contact", "Training Date", "Version", "Attendance - Day 1">>

ZoomColumns == <<"User Email", "Duration (Minutes)">>

\* a participation table whose headers do not contain 'duration'
ZoomColumnsNoDuration == <<"User Email", "Minutes">>

\* a row of a table: the cells in column order
Row(columns, cells) ==
    [c \in {columns[i] : i \in 1..Len(columns)} |->
        cells[CHOOSE i \in 1..Len(columns) : columns[i] = c]]

\* roster rows (e-mail, training date, program, mark of day 1): an identity that
\* occurs twice up to case and blanks, one date in three formats, an
\* unparseable date, a missing date, a blank identity, marks left by earlier runs
RosterList ==
    << <<Str(" A@x "), Str("15-01-2025"), Str("P1"), NaN>>,
       <<Str("a@x"), Str("2025-01-15"), Str(" P1 "), Str("N")>>,
       <<NaN, Str("15/01/25"), NaN, Str("Y")>>,
       <<Str("c@x"), Str("tbd"), Str("P2"), Str("Y")>>,
       <<Str("C@x"), NaN, Str("P1"), Str("N")>> >>

\* participation records (e-mail, duration): two records of 30 minutes for one
\* identity, a record of 90 minutes, a record without e-mail
ZoomList ==
    << <<Str("a@x"), Str("30")>>,
       <<Str("A@X "), Str("0:30:00")>>,
       <<Str("c@x"), Str("1h 30m")>>,
       <<NaN, Str("90")>> >>

\* the elements of list at the indices S, in list order
RECURSIVE PickFrom(_, _, _)
PickFrom(list, S, i) ==
    IF i > Len(list) THEN <<>>
    ELSE (IF i \in S THEN <<list[i]>> ELSE <<>>) \o PickFrom(list, S, i + 1)

\* the sub-lists of list with at most n elements
SubLists(list, n) ==
    {PickFrom(list, S, 1) : S \in {T \in SUBSET (1..Len(list)) : Cardinality(T) <= n}}

Table(columns, list) ==
    [columns |-> columns, rows |-> [i \in 1..Len(list) |-> Row(columns, list[i])]]

\* the mapping the resolver proposes for RegColumns, confirmed unchanged
RegMapFull ==
    [k \in {"Email", "Training date", "Version", "Attendance - Day 1"} |->
        CASE k = "Email" -> "Email"
          [] k = "Training date" -> "Training Date"
          [] k = "Version" -> "Version"
          [] OTHER -> "Attendance - Day 1"]

\* the confirmed roster mappings: the proposal; the day column left 'Not Mapped';
\* the program column left 'Not Mapped'; the day field mapped to the e-mail
\* column; the proposal after an earlier run for day 2 registered its column
RegMaps ==
    { RegMapFull,
      Pop(RegMapFull, "Attendance - Day 1"),
      Pop(RegMapFull, "Version"),
      SetItem(RegMapFull, "Attendance - Day 1", "Email"),
      SetItem(RegMapFull, "Attendance - Day 2", "Attendance - Day 2") }

ZoomMapFull ==
    [k \in {"Email", "Duration"} |-> IF k = "Email" THEN ZoomColumns[1] ELSE ZoomColumns[2]]

SelectedDates == {<<2025, 1, 15>>, <<2025, 1, 16>>}

AttendanceDays == {1, 2}

\* "" is no filter (None)
ProgramFilters == {"", "P1"}

\* the default presence threshold, in minutes
DefaultMinDuration == 60

Params ==
    [selected_date : SelectedDates, attendance_day : AttendanceDays,
     program_filter : ProgramFilters, min_duration : {DefaultMinDuration}]

RegFile(readable, df) == [path |-> "data/roster.csv", readable |-> readable, df |-> df]

ZoomFile(readable, df) == [path |-> "data/zoom.csv", readable |-> readable, df |-> df]

(***************************************************************************)
(* The state machine: a caller (the GUI, or a script) that holds the two   *)
(* files and the two confirmed mappings and invokes process_attendance,    *)
(* once or again with the same arguments.                                  *)
(***************************************************************************)
VARIABLES
    reg_file,       \* the roster file
    zoom_file,      \* the participation log file
    reg_col_map,    \* the caller's roster mapping object (passed as override)
    zoom_col_map,   \* the caller's participation mapping object
    run,            \* the last invocation: its arguments and how it ended
    prev            \* how the invocation before it ended, when there was one

vars == <<reg_file, zoom_file, reg_col_map, zoom_col_map, run, prev>>

NoRun == [phase |-> "none"]

\* files that load and confirmed mappings of every shape, tables of every content
InitEngine ==
    /\ reg_file \in {RegFile(TRUE, Table(RegColumns, list)) :
                        list \in SubLists(RosterList, MaxRosterRows)}
    /\ zoom_file \in {ZoomFile(TRUE, Table(ZoomColumns, list)) :
                        list \in SubLists(ZoomList, MaxZoomRows)}
    /\ reg_col_map \in {NoMap} \cup {Dict(m) : m \in RegMaps}
    /\ zoom_col_map = Dict(ZoomMapFull)

\* files that may not load, headers the resolver may not recognise, mappings
\* that may lack required keys (a script may pass any dict)
InitLoader ==
    /\ reg_file \in {RegFile(readable, Table(columns, SubSeq(RosterList, 1, 1))) :
                        readable \in BOOLEAN, columns \in {RegColumns, RegColumnsNoEmail}}
    /\ zoom_file \in {ZoomFile(readable, Table(columns, SubSeq(ZoomList, 1, 1))) :
                        readable \in BOOLEAN, columns \in {ZoomColumns, ZoomColumnsNoDuration}}
    /\ reg_col_map \in {NoMap, Dict(RegMapFull), Dict(Pop(RegMapFull, "Training date")),
                        Dict(EmptyMap)}
    /\ zoom_col_map \in {NoMap, Dict(ZoomMapFull), Dict(Pop(ZoomMapFull, "Duration"))}

Init ==
    /\ InitEngine \/ InitLoader
    /\ run = NoRun
    /\ prev = NoRun

\* one invocation with arguments p; write_ok: to_csv succeeds
Invoke(p, write_ok, phase) ==
    \E call \in {process_attendance(reg_file, zoom_file, p, reg_col_map, zoom_col_map,
                                    write_ok)} :
        /\ run' = [phase |-> phase, p |-> p, write_ok |-> write_ok,
                   reg_col_map_override |-> reg_col_map,
                   zoom_col_map_override |-> zoom_col_map,
                   call |-> call]
        /\ reg_col_map' = call.reg_col_map_after
        /\ prev' = IF phase = "first" THEN NoRun
                   ELSE [phase |-> run.phase, outcome |-> run.call.outcome,
                         result |-> run.call.result]
        /\ UNCHANGED <<reg_file, zoom_file, zoom_col_map>>

\* 'Mark Attendance' (gui.py _process_attendance), or a script calling the engine
MarkAttendance ==
    /\ run.phase = "none"
    /\ \E p \in Params, write_ok \in BOOLEAN : Invoke(p, write_ok, "first")

\* 'Mark Attendance' clicked again: same files, parameters and mapping objects
MarkAttendanceAgain ==
    /\ run.phase # "none"
    /\ Invoke(run.p, run.write_ok, "again")

Next == MarkAttendance \/ MarkAttendanceAgain

Spec == Init /\ [][Next]_vars

(***************************************************************************)
(* Properties.  They are stated on the inputs of the last invocation (the  *)
(* two files, the arguments kept in run) and on what it returned.          *)
(***************************************************************************)
Invoked == run.phase # "none"

\* the invocation returned a result (it did not raise)
Returned == Invoked /\ run.call.outcome = "returned"

\* both loads succeeded and the run went through all its steps
Completed ==
    /\ Returned
    /\ run.call.reg_data.ok
    /\ run.call.zoom_called /\ run.call.zoom_data.ok

Result == run.call.result

\* the roster as loaded, the mapping the roster loader returned
InputDf == reg_file.df

RegMapUsed == run.call.reg_data.col_map

ZoomMapUsed == run.call.zoom_data.col_map

InScope == run.call.filtered_indices

\* the identity of roster row i and of participation record j
RosterIdentity(i) == normalize_email(InputDf.rows[i][RegMapUsed["Email"]])

ZoomIdentity(j) == normalize_email(zoom_file.df.rows[j][ZoomMapUsed["Email"]])

ZoomMinutes(j) == parse_duration_to_minutes(zoom_file.df.rows[j][ZoomMapUsed["Duration"]])

RecordsOf(e) == {j \in 1..NRows(zoom_file.df) : ZoomIdentity(j) = e}

RECURSIVE SumMinutes(_)
SumMinutes(J) ==
    IF J = {} THEN 0
    ELSE LET j == CHOOSE k \in J : TRUE IN ZoomMinutes(j) + SumMinutes(J \ {j})

Threshold == run.p.min_duration * MinuteUnits

\* the mark of roster row i in the output table
Mark(i) == run.call.output_df.rows[i][run.call.att_col_name]

PresentRows ==
    {i \in InScope : RosterIdentity(i) # "" /\ RecordsOf(RosterIdentity(i)) # {}
                     /\ SumMinutes(RecordsOf(RosterIdentity(i))) >= Threshold}

BelowRows ==
    {i \in InScope : RosterIdentity(i) # "" /\ RecordsOf(RosterIdentity(i)) # {}
                     /\ SumMinutes(RecordsOf(RosterIdentity(i))) < Threshold}

AbsentRows == {i \in InScope : RosterIdentity(i) # "" /\ RecordsOf(RosterIdentity(i)) = {}}

BlankRows == {i \in InScope : RosterIdentity(i) = ""}

\* C1: after a completed run every in-scope row with a non-empty identity is
\* marked "Y" exactly when the durations of ALL records of its identity sum to
\* at least min_duration, and "N" otherwise; matched_present counts the rows
\* whose sum reaches the threshold, matched_below_threshold those with a
\* record and a smaller sum, not_found_in_zoom those without a record
\* (together with the rows of blank identity).
C1_Classification ==
    Completed =>
        /\ \A i \in PresentRows : Mark(i) = Str("Y")
        /\ \A i \in BelowRows \cup AbsentRows : Mark(i) = Str("N")
        /\ Result.matched_present = Cardinality(PresentRows)
        /\ Result.matched_below_threshold = Cardinality(BelowRows)
        /\ Result.not_found_in_zoom = Cardinality(AbsentRows) + Cardinality(BlankRows)

\* a row is present although each record of its identity is below the threshold
C1_Witness ==
    /\ Completed
    /\ \E i \in PresentRows :
          /\ Cardinality(RecordsOf(RosterIdentity(i))) >= 2
          /\ \A j \in RecordsOf(RosterIdentity(i)) : ZoomMinutes(j) < Threshold
          /\ SumMinutes(RecordsOf(RosterIdentity(i))) = Threshold
          /\ Mark(i) = Str("Y")
    /\ Result.matched_present >= 1

\* C2: whenever process_attendance returns a result, the three classification
\* counters add up to total_registrations.
C2_CountersAddUp ==
    Returned =>
        Result.matched_present + Result.matched_below_threshold + Result.not_found_in_zoom
            = Result.total_registrations

\* a completed run with two in-scope rows of one identity, whose write failed
C2_Witness ==
    /\ Completed
    /\ ~run.write_ok
    /\ Result.total_registrations >= 2
    /\ \E i, k \in InScope : i # k /\ RosterIdentity(i) = RosterIdentity(k)

\* the identities of the log that no in-scope roster row carries
UnmatchedIdentities ==
    {ZoomIdentity(j) : j \in 1..NRows(zoom_file.df)}
        \ ({""} \cup {RosterIdentity(i) : i \in InScope})

\* C3: after a completed run unmatched_zoom_emails lists exactly the non-empty
\* identities of the participation log that are the identity of no in-scope
\* roster row, each once, in ascending order.
C3_Unmatched ==
    Completed =>
        LET u == Result.unmatched_zoom_emails
        IN  /\ {u[k] : k \in 1..Len(u)} = UnmatchedIdentities
            /\ \A k \in 1..(Len(u) - 1) : StrLess(u[k], u[k + 1])

\* two identities are unmatched, one of them on a roster row that is out of scope
C3_Witness ==
    /\ Completed
    /\ Len(Result.unmatched_zoom_emails) >= 2
    /\ \E i \in (1..NRows(InputDf)) \ InScope :
          RosterIdentity(i) \in UnmatchedIdentities

\* the text to_csv writes for a cell (a missing value is written empty)
CsvText(c) == IF IsNa(c) THEN "" ELSE PyStr(c)

AllRows == 1..NRows(InputDf)

\* C4: after a completed run, every roster row that is not in scope has in the
\* output table the value of the run's attendance column it had in the input
\* roster, and every in-scope row has its previous value replaced by the mark.
C4_OutOfScopeUntouched ==
    Completed =>
        /\ \A i \in AllRows \ InScope :
              HasColumn(InputDf, run.call.att_col_name) =>
                  CsvText(Mark(i)) = CsvText(InputDf.rows[i][run.call.att_col_name])
        /\ \A i \in InScope : Mark(i) \in {Str("Y"), Str("N")}

FilterGiven == run.p.program_filter \notin {"", "All"}

\* the rows the run is about: the date matches and, when a filter is given, the
\* trimmed program value of the row equals it
RowsOfDateAndProgram ==
    {i \in AllRows :
        /\ parse_date(InputDf.rows[i][RegMapUsed["Training date"]]) = run.p.selected_date
        /\ FilterGiven =>
              /\ "Version" \in Keys(RegMapUsed)
              /\ Strip(PyStr(InputDf.rows[i][RegMapUsed["Version"]])) = run.p.program_filter}

\* C5: the in-scope row set of a completed run is exactly the set of roster
\* rows whose parsed training date equals selected_date and, whenever a program
\* filter is given, whose trimmed program value equals the filter;
\* total_registrations is the size of that set.
C5_ScopeExact ==
    Completed =>
        /\ InScope = RowsOfDateAndProgram
        /\ Result.total_registrations = Cardinality(RowsOfDateAndProgram)

\* C6: a second invocation with the same files, parameters and mapping objects
\* as a first one that returned also returns, with the same result.
C6_RepeatableRun ==
    (run.phase = "again" /\ prev.outcome = "returned") =>
        /\ run.call.outcome = "returned"
        /\ run.call.result = prev.result

StartsWith(str, prefix) ==
    Len(str) >= Len(prefix) /\ SubSeq(str, 1, Len(prefix)) = prefix

\* the mapping a loader validates: the override when supplied, otherwise the
\* mapping auto-detected from the headers
RegMapInUse ==
    IF run.reg_col_map_override.given THEN run.reg_col_map_override.m
    ELSE detect_registration_columns(reg_file.df)

ZoomMapInUse ==
    IF run.zoom_col_map_override.given THEN run.zoom_col_map_override.m
    ELSE detect_zoom_columns(zoom_file.df)

\* the required keys absent from mapping m, in required-key order
AbsentKeys(required, m) == SelectSeq(required, LAMBDA r : r \notin DOMAIN m)

RosterBad ==
    ~reg_file.readable \/ AbsentKeys(RegistrationRequired, RegMapInUse) # <<>>

ZoomBad ==
    ~zoom_file.readable \/ AbsentKeys(ZoomRequired, ZoomMapInUse) # <<>>

\* the result of an aborted run: one error, everything else as constructed
AbortedWith(prefix) ==
    /\ Returned
    /\ Len(Result.errors) = 1
    /\ StartsWith(Result.errors[1], prefix)
    /\ Result.total_registrations = 0
    /\ Result.total_zoom_participants = 0
    /\ Result.matched_present = 0
    /\ Result.matched_below_threshold = 0
    /\ Result.not_found_in_zoom = 0
    /\ Result.unmatched_zoom_emails = <<>>
    /\ Result.warnings = <<>>
    /\ Result.output_filepath = ""
    /\ run.call.written = ""

\* C7: when the roster or the participation log fails to load (unreadable
\* file or absent required key), process_attendance returns with a non-empty
\* errors list, all counts 0, no unmatched identities, no warnings, no output
\* path and no file written; the roster is examined first, so when both
\* inputs are bad only the roster error is reported.
C7_LoadFailureAborts ==
    Invoked =>
        /\ RosterBad => AbortedWith("Registration CSV: ")
        /\ (~RosterBad /\ ZoomBad) => AbortedWith("Zoom CSV: ")

\* both inputs are bad and the run has returned
C7_Witness ==
    /\ Invoked
    /\ RosterBad /\ ZoomBad
    /\ Result.errors # <<>>

\* the result of the same run when the write succeeds
SameRunWritten ==
    process_attendance(reg_file, zoom_file, run.p, run.reg_col_map_override,
                       run.zoom_col_map_override, TRUE).result

\* C8: when writing the output fails the result carries the same counts and
\* unmatched list as the same run with a successful write, exactly one
\* 'Error saving output' entry in errors and an empty output_filepath;
\* output_filepath is non-empty only if the write succeeded.
C8_WriteFailureKeepsStatistics ==
    /\ (Completed /\ ~run.write_ok) =>
          /\ Result.total_registrations = SameRunWritten.total_registrations
          /\ Result.total_zoom_participants = SameRunWritten.total_zoom_participants
          /\ Result.matched_present = SameRunWritten.matched_present
          /\ Result.matched_below_threshold = SameRunWritten.matched_below_threshold
          /\ Result.not_found_in_zoom = SameRunWritten.not_found_in_zoom
          /\ Result.unmatched_zoom_emails = SameRunWritten.unmatched_zoom_emails
          /\ Len(Result.errors) = Len(SameRunWritten.errors) + 1
          /\ StartsWith(Result.errors[Len(Result.errors)], "Error saving output")
          /\ Result.output_filepath = ""
    /\ (Returned /\ Result.output_filepath # "") =>
          /\ run.write_ok
          /\ run.call.written = Result.output_filepath

\* a run with a row below the threshold and an unmatched identity whose write
\* failed
C8_Witness ==
    /\ Completed
    /\ ~run.write_ok
    /\ Result.matched_below_threshold >= 1
    /\ Result.unmatched_zoom_emails # <<>>

\* what a loader returned for a file, against the mapping in use: it fails
\* exactly when a required key is absent, the message lists the absent keys,
\* and on success the mapping returned is the one validated
LoaderDecidesByKeys(data, required, m, prefix) ==
    /\ ~data.ok <=> AbsentKeys(required, m) # <<>>
    /\ ~data.ok => data.err = prefix \o Join(AbsentKeys(required, m))
    /\ data.ok => data.col_map = m

\* C9 as stated: each loader fails if and only if a required key is absent
\* from the mapping in use, with a message listing exactly the absent keys in
\* required-key order; on success it returns the mapping validated.  (A
\* mapping is in use when an override is supplied or the headers were read.)
C9_FailsIffKeyAbsent ==
    Invoked =>
        /\ (run.reg_col_map_override.given \/ reg_file.readable) =>
              LoaderDecidesByKeys(run.call.reg_data, RegistrationRequired, RegMapInUse,
                                  "Missing required columns: ")
        /\ (run.call.zoom_called
              /\ (run.zoom_col_map_override.given \/ zoom_file.readable)) =>
              LoaderDecidesByKeys(run.call.zoom_data, ZoomRequired, ZoomMapInUse,
                                  "Missing required columns in Zoom CSV: ")

\* C9 amended: for a file that can be read each loader fails if and only if a
\* required key is absent from the mapping in use, with a message listing
\* exactly the absent keys in required-key order, and on success returns the
\* mapping validated; for a file that cannot be read it fails with the read
\* error whatever the mapping.
C9_FailsIffKeyAbsentWhenReadable ==
    Invoked =>
        /\ reg_file.readable =>
              LoaderDecidesByKeys(run.call.reg_data, RegistrationRequired, RegMapInUse,
                                  "Missing required columns: ")
        /\ ~reg_file.readable =>
              ~run.call.reg_data.ok /\ StartsWith(run.call.reg_data.err, "Error reading file: ")
        /\ (run.call.zoom_called /\ zoom_file.readable) =>
              LoaderDecidesByKeys(run.call.zoom_data, ZoomRequired, ZoomMapInUse,
                                  "Missing required columns in Zoom CSV: ")
        /\ (run.call.zoom_called /\ ~zoom_file.readable) =>
              ~run.call.zoom_data.ok /\ StartsWith(run.call.zoom_data.err, "Error reading file: ")

\* a participation table with no header containing 'duration', auto-detected,
\* fails naming Duration
C9_Witness ==
    /\ Invoked
    /\ run.call.zoom_called
    /\ ~run.zoom_col_map_override.given
    /\ zoom_file.readable
    /\ run.call.zoom_data.err = "Missing required columns in Zoom CSV: Duration"

\* the columns of a table as a set
ColumnSet(df) == {df.columns[k] : k \in 1..Len(df.columns)}

OutputDf == run.call.output_df

\* the key of the attendance-day field selected for the run
SelectedKey == AttColKey(run.p.attendance_day)

\* C10 as stated: after a completed run every field other than the selected
\* attendance-day field, and every unmapped column, has on every row the value
\* it had in the input roster; the output has one row per roster row in the
\* original order and contains neither working column.
C10_OtherFieldsUnchanged ==
    Completed =>
        /\ NRows(OutputDf) = NRows(InputDf)
        /\ \A i \in AllRows :
              /\ \A k \in Keys(RegMapUsed) \ {SelectedKey} :
                    OutputDf.rows[i][RegMapUsed[k]] = InputDf.rows[i][RegMapUsed[k]]
              /\ \A c \in ColumnSet(InputDf) \ {run.call.att_col_name} :
                    OutputDf.rows[i][c] = InputDf.rows[i][c]
        /\ "_normalized_email" \notin ColumnSet(OutputDf)
        /\ "_parsed_date" \notin ColumnSet(OutputDf)

\* C10 amended: after a completed run every column other than the column the
\* selected attendance-day key is mapped to has on every row the value it had
\* in the input roster; the output has the roster's columns in order (followed
\* by the attendance column when the run created it), one row per roster row
\* in the original order, and contains neither working column.
C10_OtherColumnsUnchanged ==
    Completed =>
        /\ NRows(OutputDf) = NRows(InputDf)
        /\ OutputDf.columns =
              IF HasColumn(InputDf, run.call.att_col_name) THEN InputDf.columns
              ELSE Append(InputDf.columns, run.call.att_col_name)
        /\ \A i \in AllRows :
              /\ DOMAIN OutputDf.rows[i] = ColumnSet(OutputDf)
              /\ \A c \in ColumnSet(InputDf) \ {run.call.att_col_name} :
                    OutputDf.rows[i][c] = InputDf.rows[i][c]
        /\ "_normalized_email" \notin ColumnSet(OutputDf)
        /\ "_parsed_date" \notin ColumnSet(OutputDf)

\* a run under a mapping that assigns the e-mail and the selected day to one
\* column, with a row in scope and a row out of scope
C10_Witness ==
    /\ Completed
    /\ RegMapUsed["Email"] = run.call.att_col_name
    /\ InScope # {}
    /\ AllRows \ InScope # {}

(***************************************************************************)
(* The value parsers on their own: a caller applies one of the functions   *)
(* of utils.py to one argument.  In this specification run is that call,   *)
(* [fn, arg, note, done, value]: note says how the argument was built,     *)
(* value is what the function returned once done.  The files and the       *)
(* mappings play no part.                                                  *)
(***************************************************************************)
MaxWordLen == 3

MaxQuantity == 11

\* the strings over alphabet with at most n characters
RECURSIVE Words(_, _)
Words(alphabet, n) ==
    IF n = 0 THEN {""}
    ELSE LET shorter == Words(alphabet, n - 1)
         IN  shorter \cup {w \o a : w \in shorter, a \in alphabet}

\* duration cells: missing, numbers, every short text over the characters the
\* parser distinguishes, and the texts of test_duration_parsing
DurationAlphabet == {"-", "1", "5", ".", ":", "h", "m", " "}

DurationSamples ==
    {"45", "1:30:00", "55", "1h 30m", "90 minutes", "2 hours", "90 mins",
     "1 hour 30 minutes", "1.5 hours", "-90", "+90", "n/a"}

DurationCells ==
    {NaN} \cup {Num(n) : n \in {0 - 1, 0, 75}}
          \cup {Str(w) : w \in Words(DurationAlphabet, MaxWordLen) \cup DurationSamples}

\* the four spellings of a quantity of H hours and M minutes, and of one unit
Spelling(form, h, m) ==
    CASE form = "Hh Mm" -> NatStr(h) \o "h " \o NatStr(m) \o "m"
      [] form = "H hours M minutes" -> NatStr(h) \o " hours " \o NatStr(m) \o " minutes"
      [] form = "H hours" -> NatStr(h) \o " hours"
      [] form = "M minutes" -> NatStr(m) \o " minutes"

Spellings == {"Hh Mm", "H hours M minutes", "H hours", "M minutes"}

Call(fn, arg, note) == [fn |-> fn, arg |-> arg, note |-> note, done |-> FALSE, value |-> None]

DurationCalls ==
    {Call("parse_duration_to_minutes", c, <<>>) : c \in DurationCells}
        \cup {Call("parse_duration_to_minutes", Str(Spelling(form, h, m)), <<form, h, m>>) :
                 form \in Spellings, h \in 0..MaxQuantity, m \in 0..MaxQuantity}

\* the years of the dates: the two ends of the window of two-digit years, the
\* years next to them, a leap year and a common year
DateYears == {1968, 1969, 2024, 2025, 2068, 2069}

\* the days of the calendar in those years
Dates ==
    {date \in DateYears \X (1..12) \X (1..31) : date[3] <= DaysInMonth(date[1], date[2])}

MonthAbbrNames == <<"Jan", "Feb", "Mar", "Apr", "May", "Jun",
                    "Jul", "Aug", "Sep", "Oct", "Nov", "Dec">>

MonthFullNames == <<"January", "February", "March", "April", "May", "June",
                    "July", "August", "September", "October", "November", "December">>

\* date.strftime of one directive, and of a format of DateFormats
RenderDirective(date, tok) ==
    CASE tok = "d" -> Pad2(date[3])
      [] tok = "m" -> Pad2(date[2])
      [] tok = "Y" -> Pad4(date[1])
      [] tok = "y" -> Pad2(date[1] % 100)
      [] tok = "b" -> MonthAbbrNames[date[2]]
      [] tok = "B" -> MonthFullNames[date[2]]
      [] OTHER -> tok

RECURSIVE RenderFrom(_, _, _)
RenderFrom(date, fmt, k) ==
    IF k > Len(fmt) THEN ""
    ELSE RenderDirective(date, fmt[k]) \o RenderFrom(date, fmt, k + 1)

Render(date, k) == RenderFrom(date, DateFormats[k], 1)

\* date cells: missing, free text, and every date in every supported format
DateSamples ==
    {"", "tbd", "31-02-2025", "15.01.2025", " 15-01-2025 ", "1-2-2025", "1/13/2025",
     "31-04-2025", "13/13/2025", "02-30-2025"}

DateCalls ==
    {Call("parse_date", c, <<>>) : c \in {NaN} \cup {Str(t) : t \in DateSamples}}
        \cup {Call("parse_date", Str(Render(date, k)), <<date, k>>) :
                 date \in Dates, k \in 1..Len(DateFormats)}

\* e-mail cells: missing, a number, every short text over a letter in both
\* cases, the at sign and the two kinds of whitespace, and the texts of
\* test_email_normalization
EmailAlphabet == {"A", "a", "@", " ", "\t"}

EmailSamples == {"Alice@Example.COM", "  bob@test.com  ", "\t Bob@Test.com \t", "a b@X"}

EmailCells ==
    {NaN, Num(7)} \cup {Str(w) : w \in Words(EmailAlphabet, MaxWordLen) \cup EmailSamples}

EmailCalls == {Call("normalize_email", c, <<>>) : c \in EmailCells}

\* header rows of at most MaxHeaders columns
MaxHeaders == 3

HeaderPool ==
    {"Participant Email", "Training Date", "Attendance - Day 1", "ATTENDANCE DAY 2",
     "Name", "Version", "Email Program", "Duration (Minutes)", "User Name", "Name Email",
     "Training_Date Attendance Day 1", "Notes"}

RECURSIVE HeaderRows(_)
HeaderRows(n) ==
    IF n = 0 THEN {<<>>}
    ELSE LET shorter == HeaderRows(n - 1)
         IN  shorter \cup {Append(h, c) : h \in shorter, c \in HeaderPool}

HeaderCalls ==
    {Call(fn, [columns |-> h, rows |-> <<>>], <<>>) :
        fn \in {"detect_registration_columns", "detect_zoom_columns"},
        h \in HeaderRows(MaxHeaders)}

NoFiles ==
    /\ reg_file = RegFile(FALSE, NoDf)
    /\ zoom_file = ZoomFile(FALSE, NoDf)
    /\ reg_col_map = NoMap
    /\ zoom_col_map = NoMap
    /\ prev = NoRun

InitValues ==
    /\ run \in DurationCalls \cup DateCalls \cup EmailCalls \cup HeaderCalls
    /\ NoFiles

Return(value) ==
    /\ run' = [run EXCEPT !.done = TRUE, !.value = value]
    /\ UNCHANGED <<reg_file, zoom_file, reg_col_map, zoom_col_map, prev>>

ParseDuration ==
    /\ run.fn = "parse_duration_to_minutes" /\ ~run.done
    /\ Return(parse_duration_to_minutes(run.arg))

ParseDate ==
    /\ run.fn = "parse_date" /\ ~run.done
    /\ Return(parse_date(run.arg))

NormalizeEmail ==
    /\ run.fn = "normalize_email" /\ ~run.done
    /\ Return(normalize_email(run.arg))

DetectRegistration ==
    /\ run.fn = "detect_registration_columns" /\ ~run.done
    /\ Return(detect_registration_columns(run.arg))

DetectZoom ==
    /\ run.fn = "detect_zoom_columns" /\ ~run.done
    /\ Return(detect_zoom_columns(run.arg))

NextValues == ParseDuration \/ ParseDate \/ NormalizeEmail \/ DetectRegistration \/ DetectZoom

SpecValues == InitValues /\ [][NextValues]_vars

Returned_(fn) == run.fn = fn /\ run.done

\* the cell holds no digit at all
NoNumericToken(c) ==
    \/ IsNa(c)
    \/ c.t = "str" /\ \A i \in 1..Len(c.s) : ~IsDigit(Ch(c.s, i))

\* C11: parse_duration_to_minutes returns a non-negative number for every
\* input (missing, numeric, any string, signed numeric strings included), and
\* 0 for a value from which no numeric token can be extracted.
C11_DurationNonNegative ==
    Returned_("parse_duration_to_minutes") =>
        /\ run.value >= 0
        /\ NoNumericToken(run.arg) => run.value = 0

\* C12: for all non-negative integers H and M, "Hh Mm" and "H hours M minutes"
\* both parse to H*60 + M minutes, "H hours" to H*60 and "M minutes" to M.
C12_HoursAndMinutes ==
    (Returned_("parse_duration_to_minutes") /\ run.note # <<>>) =>
        LET form == run.note[1]
            h == run.note[2]
            m == run.note[3]
        IN  run.value = MinuteUnits *
                (CASE form = "H hours" -> h * 60
                   [] form = "M minutes" -> m
                   [] OTHER -> h * 60 + m)

\* "10h 5m" has been parsed
C12_Witness ==
    /\ Returned_("parse_duration_to_minutes")
    /\ run.arg = Str("10h 5m")
    /\ run.value = 605 * MinuteUnits

\* C13 as stated: for every calendar date d and every supported format,
\* parse_date of d rendered in that format is d.
C13_RoundTrip ==
    (Returned_("parse_date") /\ run.note # <<>>) => run.value = run.note[1]

\* the formats with the day first or the year first and a four-digit year, the
\* formats with a two-digit year, the formats with the month first
DayOrYearFirst == {1, 2, 3, 8, 9, 10}

TwoDigitYear == {4, 5}

MonthFirst == {6, 7}

\* C13 amended: parse_date of d rendered in a format returns d for the
\* day-first and year-first formats with a four-digit year; for the formats
\* with a two-digit year it returns d when the year of d is in 1969..2068 and
\* otherwise the same day and month in the year of that window with the same
\* last two digits; for the month-first formats it returns d when the day of d
\* is above 12 or equals its month, and otherwise the date with day and month
\* exchanged.
C13_RoundTripDayFirst ==
    (Returned_("parse_date") /\ run.note # <<>>) =>
        LET date == run.note[1]
            k == run.note[2]
            yy == date[1] % 100
        IN  /\ k \in DayOrYearFirst => run.value = date
            /\ k \in TwoDigitYear =>
                  run.value = <<IF yy < 69 THEN 2000 + yy ELSE 1900 + yy, date[2], date[3]>>
            /\ k \in MonthFirst =>
                  run.value = IF date[3] > 12 THEN date ELSE <<date[1], date[3], date[2]>>

\* 29 February 2024 written month first, and 4 March 2025 written day first
\* with a two-digit year, have been parsed
C13_Witness ==
    /\ Returned_("parse_date")
    /\ \/ run.arg = Str("02-29-2024") /\ run.value = <<2024, 2, 29>>
       \/ run.arg = Str("04/03/25") /\ run.value = <<2025, 3, 4>>

\* the roster rows whose training-date cell is missing or does not parse
NullDateRows ==
    {i \in AllRows : parse_date(InputDf.rows[i][RegMapInUse["Training date"]]) = None}

\* both files load under the mappings in use
BothLoad == Invoked /\ ~RosterBad /\ ~ZoomBad

\* a mapping in use names a column that its table does not have
MappedColumnAbsent ==
    \/ \E k \in Keys(RegMapInUse) \cap {"Email", "Training date", "Version", SelectedKey} :
          ~HasColumn(InputDf, RegMapInUse[k])
    \/ \E k \in Keys(ZoomMapInUse) \cap {"Email", "Duration"} :
          ~HasColumn(zoom_file.df, ZoomMapInUse[k])

\* what C14 says of such a row apart from its attendance field: it is not in
\* scope nor counted, its identity does not keep an identity of the log out of
\* the unmatched list, the run reports no error and raises only because a
\* mapped column is not in its table
NullDateRowsOutOfScope ==
    BothLoad =>
        /\ Completed =>
              /\ NullDateRows \cap InScope = {}
              /\ Result.total_registrations <= Cardinality(AllRows \ NullDateRows)
              /\ \A i \in NullDateRows :
                    (/\ RecordsOf(RosterIdentity(i)) # {}
                     /\ RosterIdentity(i) # ""
                     /\ \A k \in InScope : RosterIdentity(k) # RosterIdentity(i))
                        => \E n \in 1..Len(Result.unmatched_zoom_emails) :
                              Result.unmatched_zoom_emails[n] = RosterIdentity(i)
              /\ run.write_ok => Result.errors = <<>>
        /\ run.call.outcome = "raised" => MappedColumnAbsent

\* C14: a roster row whose training-date cell is missing or cannot be parsed is
\* never in scope: it is not counted in total_registrations, its attendance
\* field is not written, its identity does not suppress an unmatched entry,
\* and the run does not raise or report an error because of it.
C14_NullDateRowUntouched ==
    /\ NullDateRowsOutOfScope
    /\ Completed =>
          \A i \in NullDateRows :
              HasColumn(InputDf, run.call.att_col_name) =>
                  CsvText(Mark(i)) = CsvText(InputDf.rows[i][run.call.att_col_name])

\* the in-scope rows whose identity is non-empty and is the identity of a record
RowsWithRecord ==
    {i \in InScope :
        /\ RosterIdentity(i) # ""
        /\ \E j \in 1..NRows(zoom_file.df) : ZoomIdentity(j) = RosterIdentity(i)}

\* C15: the normalized e-mail is the sole join key.  After a completed run the
\* in-scope rows counted as matched (present or below the threshold) are
\* exactly those whose normalized e-mail is non-empty and equals the normalized
\* e-mail of a record, only such a row is marked "Y", every other in-scope row
\* is counted as not found, and the records are aggregated under their
\* normalized e-mails.
C15_JoinOnNormalizedEmail ==
    Completed =>
        /\ Result.matched_present + Result.matched_below_threshold
              = Cardinality(RowsWithRecord)
        /\ Result.not_found_in_zoom = Cardinality(InScope \ RowsWithRecord)
        /\ \A i \in InScope : Mark(i) = Str("Y") => i \in RowsWithRecord
        /\ Result.total_zoom_participants
              = Cardinality({ZoomIdentity(j) : j \in 1..NRows(zoom_file.df)} \ {""})

\* a row is matched to a record whose raw e-mail differs from its own in case
\* and surrounding blanks
C15_Witness ==
    /\ Completed
    /\ \E i \in RowsWithRecord : \E j \in RecordsOf(RosterIdentity(i)) :
          /\ InputDf.rows[i][RegMapUsed["Email"]].s # RosterIdentity(i)
          /\ zoom_file.df.rows[j][ZoomMapUsed["Email"]].s # RosterIdentity(i)
          /\ InputDf.rows[i][RegMapUsed["Email"]].s
                # zoom_file.df.rows[j][ZoomMapUsed["Email"]].s
    /\ Result.matched_present + Result.matched_below_threshold >= 1

\* r is the text s without its surrounding whitespace and with every letter in
\* lower case
StrippedAndLowered(s, r) ==
    \E a \in 1..(Len(s) + 1) :
        /\ \A i \in 1..(a - 1) : IsSpace(Ch(s, i))
        /\ \A i \in (a + Len(r))..Len(s) : IsSpace(Ch(s, i))
        /\ a + Len(r) - 1 <= Len(s)
        /\ \A i \in 1..Len(r) : Ch(r, i) = LowerCh(Ch(s, a + i - 1))
        /\ Len(r) > 0 => ~IsSpace(Ch(r, 1)) /\ ~IsSpace(Ch(r, Len(r)))

\* C16: normalize_email is idempotent and total: normalizing its result gives
\* the result again; a missing, a non-string and an empty input give the empty
\* string, and a string gives itself with the surrounding whitespace stripped
\* and the letters in lower case.
C16_NormalizeEmailIdempotent ==
    Returned_("normalize_email") =>
        /\ normalize_email(Str(run.value)) = run.value
        /\ (run.arg.t # "str" \/ run.arg.s = "") => run.value = ""
        /\ run.arg.t = "str" => StrippedAndLowered(run.arg.s, run.value)

\* a text with surrounding whitespace and a capital letter has been normalized
C16_Witness ==
    /\ Returned_("normalize_email")
    /\ run.arg = Str("\t Bob@Test.com \t")
    /\ run.value = "bob@test.com"

\* the keys whose keywords the header contains, whatever has been assigned
RegistrationKeys ==
    <<"Email", "Training date", "Attendance - Day 1", "Attendance - Day 2", "Name", "Version">>

RegistrationKeyword(key, col_lower) ==
    CASE key = "Email" -> Contains(col_lower, "email")
      [] key = "Training date" ->
            Contains(col_lower, "training date") \/ Contains(col_lower, "training_date")
      [] key = "Attendance - Day 1" ->
            Contains(col_lower, "attendance") /\ Contains(col_lower, "day 1")
      [] key = "Attendance - Day 2" ->
            Contains(col_lower, "attendance") /\ Contains(col_lower, "day 2")
      [] key = "Name" -> col_lower = "name" \/ col_lower = "participant name"
      [] key = "Version" -> Contains(col_lower, "version") \/ Contains(col_lower, "program")

ZoomKeys == <<"Email", "Duration", "Name">>

ZoomKeyword(key, col_lower) ==
    CASE key = "Email" -> Contains(col_lower, "email")
      [] key = "Duration" -> Contains(col_lower, "duration")
      [] key = "Name" -> Contains(col_lower, "name")

KeysOf(fn) == IF fn = "detect_registration_columns" THEN RegistrationKeys ELSE ZoomKeys

Keyword(fn, key, col) ==
    IF fn = "detect_registration_columns"
    THEN RegistrationKeyword(key, Strip(Lower(col)))
    ELSE ZoomKeyword(key, Strip(Lower(col)))

\* the header matches the rule of the k-th key and of no earlier key
FirstRuleIs(fn, col, k) ==
    /\ Keyword(fn, KeysOf(fn)[k], col)
    /\ \A e \in 1..(k - 1) : ~Keyword(fn, KeysOf(fn)[e], col)

\* the positions of the headers whose first matching rule is that of the k-th key
CandidatesOf(fn, columns, k) == {i \in 1..Len(columns) : FirstRuleIs(fn, columns[i], k)}

Detected == Returned_("detect_registration_columns") \/ Returned_("detect_zoom_columns")

\* C17: in detect_registration_columns and detect_zoom_columns a header is a
\* candidate only for the key of the first keyword rule it matches: a key is
\* assigned exactly when some header has its rule as first matching rule, and
\* then to the first such header; a header whose key is already filled is left
\* unassigned.
C17_FirstMatchingRuleOnly ==
    Detected =>
        \A k \in 1..Len(KeysOf(run.fn)) :
            LET key == KeysOf(run.fn)[k]
                candidates == CandidatesOf(run.fn, run.arg.columns, k)
            IN  /\ key \in Keys(run.value) <=> candidates # {}
                /\ key \in Keys(run.value) =>
                      \E i \in candidates :
                          /\ run.value[key] = run.arg.columns[i]
                          /\ \A j \in candidates : i <= j

\* what holds of the two resolvers: a key is assigned at most to one header,
\* one that matches its keywords, and no earlier header that matches them was
\* left without a key
DetectAssignsMatchingHeaders ==
    Detected =>
        \A k \in 1..Len(KeysOf(run.fn)) :
            LET key == KeysOf(run.fn)[k]
            IN  key \in Keys(run.value) =>
                    \E i \in 1..Len(run.arg.columns) :
                        /\ run.value[key] = run.arg.columns[i]
                        /\ Keyword(run.fn, key, run.arg.columns[i])
                        /\ \A j \in 1..(i - 1) :
                              Keyword(run.fn, key, run.arg.columns[j]) =>
                                  \E other \in Keys(run.value) :
                                      run.value[other] = run.arg.columns[j]

\* the example of the specification
DetectExample ==
    (/\ Returned_("detect_registration_columns")
     /\ run.arg.columns = <<"Participant Email", "Training Date", "Attendance - Day 1">>) =>
        run.value = [k \in {"Email", "Training date", "Attendance - Day 1"} |->
                        CASE k = "Email" -> "Participant Email"
                          [] k = "Training date" -> "Training Date"
                          [] OTHER -> "Attendance - Day 1"]

\* the non-empty identities of the participation log
ZoomIdentities == {ZoomIdentity(j) : j \in 1..NRows(zoom_file.df)} \ {""}

\* C18: a completed run whose in-scope row set is empty is not an error: it has
\* exactly one warning, which names the selected date and, when a filter was
\* given, the program; it has no error but that of a failed write; its three
\* classification counters are 0; total_zoom_participants is computed and every
\* aggregate key is listed as unmatched; the output table is still written.  A
\* run with an in-scope row has no warning.
C18_EmptyScopeWarnsOnly ==
    Completed =>
        IF InScope = {}
        THEN /\ Len(Result.warnings) = 1
             /\ Contains(Result.warnings[1], StrfDMY(run.p.selected_date))
             /\ FilterGiven => Contains(Result.warnings[1], "'" \o run.p.program_filter \o "'")
             /\ Len(Result.errors) = IF run.write_ok THEN 0 ELSE 1
             /\ Result.matched_present = 0
             /\ Result.matched_below_threshold = 0
             /\ Result.not_found_in_zoom = 0
             /\ Result.total_zoom_participants = Cardinality(ZoomIdentities)
             /\ {Result.unmatched_zoom_emails[k] : k \in 1..Len(Result.unmatched_zoom_emails)}
                   = ZoomIdentities
             /\ run.write_ok =>
                   /\ Result.output_filepath # ""
                   /\ run.call.written = Result.output_filepath
                   /\ NRows(run.call.output_df) = NRows(InputDf)
        ELSE Result.warnings = <<>>

\* a run with a filter, a non-empty roster and a non-empty participation log
\* found no row in scope and wrote its table
C18_Witness ==
    /\ Completed
    /\ InScope = {}
    /\ FilterGiven
    /\ NRows(InputDf) > 0
    /\ ZoomIdentities # {}
    /\ run.write_ok
    /\ Len(Result.warnings) = 1

\* the program filter took part in the in-scope computation of the run
FilterAppliedToScope == FilterGiven /\ "Version" \in Keys(RegMapUsed)

\* the file name of a run with the given suffix
NameWithSuffix(suffix) ==
    "data/attendance_output_" \o StrfYMD(run.p.selected_date) \o "_Day"
        \o NatStr(run.p.attendance_day) \o suffix \o ".csv"

\* '_' and the filter, blanks replaced by '_' and '/' by '-'
SuffixOf(program_filter) == "_" \o Replace(Replace(program_filter, " ", "_"), "/", "-")

\* C19: the output file is attendance_output_<yyyy-mm-dd>_Day<N><suffix>.csv,
\* where the suffix is non-empty exactly when a program filter was applied to
\* the in-scope computation of the run, and is then '_' followed by the filter
\* with blanks replaced by '_' and '/' by '-'.
C19_SuffixIffFilterApplied ==
    (Completed /\ run.write_ok) =>
        Result.output_filepath =
            NameWithSuffix(IF FilterAppliedToScope THEN SuffixOf(run.p.program_filter) ELSE "")

\* what holds: the suffix follows the filter argument alone
SuffixIffFilterGiven ==
    (Completed /\ run.write_ok) =>
        Result.output_filepath =
            NameWithSuffix(IF FilterGiven THEN SuffixOf(run.p.program_filter) ELSE "")

(***************************************************************************)
(* Two invocations of process_attendance in one process, given the same    *)
(* mapping objects and interleaved statement by statement.  In this        *)
(* specification run[t] is invocation t: its arguments p, the statement it *)
(* is at (pc), its locals f and, once it has ended, call; reg_col_map and  *)
(* zoom_col_map are the two dict objects both invocations were given, and  *)
(* prev keeps the roster mapping as the caller confirmed it.  With an      *)
(* override the loader returns the caller's dict itself, so the local      *)
(* reg_col_map of each invocation is the shared object.  The statements     *)
(* after the lookup of att_col_name read only keys that no invocation      *)
(* writes and write only locals and the invocation's own file: they are    *)
(* one step.                                                               *)
(***************************************************************************)
Invocations == {1, 2}

\* the pairs of arguments that name distinct output files
ParamPairs ==
    {pp \in Params \X Params :
        /\ pp[1].selected_date = pp[2].selected_date
        /\ OutputFilename(pp[1].selected_date, pp[1].attendance_day, pp[1].program_filter)
              # OutputFilename(pp[2].selected_date, pp[2].attendance_day, pp[2].program_filter)}

Invocation(p) == [pc |-> "load", p |-> p, f |-> None, call |-> None]

InitThreads ==
    /\ reg_file \in {RegFile(TRUE, Table(RegColumns, list)) :
                        list \in SubLists(RosterList, MaxRosterRows)}
    /\ zoom_file = ZoomFile(TRUE, Table(ZoomColumns, SubSeq(ZoomList, 1, MaxZoomRows)))
    /\ reg_col_map \in {Dict(m) : m \in RegMaps}
    /\ zoom_col_map = Dict(ZoomMapFull)
    /\ prev = [phase |-> "confirmed", reg_col_map |-> reg_col_map]
    /\ run \in {[t \in Invocations |-> Invocation(pp[t])] : pp \in ParamPairs}

\* lines 84-94: the two loads; a failed load returns at once
LoadData(t) ==
    /\ run[t].pc = "load"
    /\ LET ld == LoadStage(reg_file, zoom_file, reg_col_map, zoom_col_map)
       IN  run' = IF Len(ld.errors) > 0
                  THEN [run EXCEPT ![t].pc = "done",
                                   ![t].call = Step1(ld, reg_file, run[t].p, reg_col_map, TRUE)]
                  ELSE [run EXCEPT ![t].pc = "test",
                                   ![t].f = Locals(ld, reg_file, run[t].p, reg_col_map, TRUE)]
    /\ UNCHANGED <<reg_file, zoom_file, reg_col_map, zoom_col_map, prev>>

\* line 102: if att_col_key not in reg_col_map
TestKey(t) ==
    /\ run[t].pc = "test"
    /\ run' = [run EXCEPT ![t].pc = IF AttColKey(run[t].p.attendance_day) \notin Keys(reg_col_map.m)
                                    THEN "create" ELSE "lookup"]
    /\ UNCHANGED <<reg_file, zoom_file, reg_col_map, zoom_col_map, prev>>

\* lines 104-105: reg_df[att_col_name] = ""
CreateAttColumn(t) ==
    /\ run[t].pc = "create"
    /\ LET att_col_name == "Attendance - Day " \o NatStr(run[t].p.attendance_day)
           reg_df == run[t].f.reg_df
       IN  run' = [run EXCEPT ![t].pc = "register",
                              ![t].f.att_col_name = att_col_name,
                              ![t].f.reg_df = SetColumn(reg_df, att_col_name,
                                                        [i \in 1..NRows(reg_df) |-> Str("")])]
    /\ UNCHANGED <<reg_file, zoom_file, reg_col_map, zoom_col_map, prev>>

\* line 106: reg_col_map[att_col_key] = att_col_name, on the shared dict
RegisterKey(t) ==
    /\ run[t].pc = "register"
    /\ reg_col_map' = Dict(SetItem(reg_col_map.m, AttColKey(run[t].p.attendance_day),
                                   run[t].f.att_col_name))
    /\ run' = [run EXCEPT ![t].pc = "lookup"]
    /\ UNCHANGED <<reg_file, zoom_file, zoom_col_map, prev>>

\* lines 108-206: att_col_name = reg_col_map[att_col_key] and the rest of the run
RunToEnd(t) ==
    /\ run[t].pc = "lookup"
    /\ run' = [run EXCEPT ![t].pc = "done",
                          ![t].call = Step2Coerce([run[t].f EXCEPT !.reg_col_map = reg_col_map.m])]
    /\ UNCHANGED <<reg_file, zoom_file, reg_col_map, zoom_col_map, prev>>

NextThreads ==
    \E t \in Invocations :
        LoadData(t) \/ TestKey(t) \/ CreateAttColumn(t) \/ RegisterKey(t) \/ RunToEnd(t)

SpecThreads == InitThreads /\ [][NextThreads]_vars

\* invocation t run alone, with the mapping as the caller confirmed it
Alone(t) ==
    process_attendance(reg_file, zoom_file, run[t].p, prev.reg_col_map, zoom_col_map, TRUE)

\* C20: two invocations in one process that target distinct output paths and
\* are given the same confirmed mapping objects, interleaved in any order at
\* statement granularity, each complete without raising and each return the
\* result they return when run alone.
C20_InterleavingTransparent ==
    \A t \in Invocations :
        (run[t].pc = "done" /\ Alone(t).outcome = "returned") =>
            /\ run[t].call.outcome = "returned"
            /\ run[t].call.result = Alone(t).result

\* what the engine writes that the other invocation sees: only the attendance
\* keys of the mapping; every other key keeps its column
SharedMappingOnlyGrows ==
    \A k \in Keys(prev.reg_col_map.m) :
        k \in Keys(reg_col_map.m) /\ reg_col_map.m[k] = prev.reg_col_map.m[k]

\* zoom_dict as steps 3 and 5 compute it from the participation log as loaded
Aggregate ==
    ZoomDict(ParseDurations(NormalizeEmails(zoom_file.df, ZoomMapUsed["Email"]),
                            ZoomMapUsed["Duration"]))

\* C21: participation aggregation is global.  After a completed run
\* total_zoom_participants is the number of distinct non-empty normalized
\* identities over all participation rows and the aggregate of each identity
\* is the sum of parse_duration_to_minutes over all of its rows, whatever the
\* selected date, the program filter, the attendance day and the roster.
C21_GlobalAggregation ==
    Completed =>
        /\ Result.total_zoom_participants = Cardinality(Keys(Aggregate))
        /\ Keys(Aggregate) = ZoomIdentities
        /\ \A e \in ZoomIdentities : Aggregate[e] = SumMinutes(RecordsOf(e))

\* an identity with two records is aggregated by a run that has no row in scope
C21_Witness ==
    /\ Completed
    /\ InScope = {}
    /\ \E e \in ZoomIdentities :
          /\ Cardinality(RecordsOf(e)) = 2
          /\ Aggregate[e] = 60 * MinuteUnits
    /\ Result.total_zoom_participants = 1

\* the participation rows of blank identity
BlankRecords == RecordsOf("")

\* C22: blank identities never match.  After a completed run the records whose
\* e-mail normalizes to the empty string are in no aggregate, are not counted
\* in total_zoom_participants and are not listed as unmatched; an in-scope
\* roster row of blank identity is marked "N" and counted as not found, even
\* when the blank records sum to the threshold or more.
C22_BlankNeverMatches ==
    Completed =>
        /\ "" \notin Keys(Aggregate)
        /\ Result.total_zoom_participants
              = Cardinality({ZoomIdentity(j) : j \in (1..NRows(zoom_file.df)) \ BlankRecords})
        /\ \A k \in 1..Len(Result.unmatched_zoom_emails) : Result.unmatched_zoom_emails[k] # ""
        /\ \A i \in BlankRows : Mark(i) = Str("N")
        /\ Result.not_found_in_zoom - Cardinality(AbsentRows) = Cardinality(BlankRows)
        /\ Result.matched_present + Result.matched_below_threshold
              <= Cardinality(InScope \ BlankRows)

\* a blank roster row is in scope while a blank record reaches the threshold
C22_Witness ==
    /\ Completed
    /\ BlankRows # {}
    /\ BlankRecords # {}
    /\ SumMinutes(BlankRecords) >= Threshold
    /\ \E i \in BlankRows : Mark(i) = Str("N")
    /\ Result.not_found_in_zoom >= 1

AllDigits(s) == Len(s) > 0 /\ \A i \in 1..Len(s) : IsDigit(Ch(s, i))

\* the fields of s between its colons
RECURSIVE FieldsFrom(_, _, _, _)
FieldsFrom(s, sep, i, start) ==
    IF i > Len(s) THEN <<SubSeq(s, start, Len(s))>>
    ELSE IF Ch(s, i) = sep
    THEN <<SubSeq(s, start, i - 1)>> \o FieldsFrom(s, sep, i + 1, i + 1)
    ELSE FieldsFrom(s, sep, i + 1, start)

Fields(s) == FieldsFrom(s, ":", 1, 1)

\* s is n fields of digits
ColonTime(s, n) == Len(Fields(s)) = n /\ \A k \in 1..n : AllDigits(Fields(s)[k])

Field(s, k) == NatOf(Fields(s)[k], 1, Len(Fields(s)[k]) + 1)

HourWords == {"h", "hr", "hour", "hours"}

MinuteWords == {"m", "min", "mins", "minute", "minutes"}

\* a decimal number starts at i and one of the words follows it, blanks between
QuantityAt(s, i, words) ==
    /\ NumberEnd(s, i) > i
    /\ \E w \in words :
          LET k == SpacesEnd(s, NumberEnd(s, i))
          IN  k + Len(w) - 1 <= Len(s) /\ Lower(SubSeq(s, k, k + Len(w) - 1)) = w

HasQuantity(s, words) == \E i \in 1..Len(s) : QuantityAt(s, i, words)

\* the leftmost quantity of s in those words, in units
FirstQuantity(s, words) ==
    LET i == CHOOSE k \in 1..Len(s) :
                /\ QuantityAt(s, k, words)
                /\ \A j \in 1..(k - 1) : ~QuantityAt(s, j, words)
    IN  NumberUnits(s, i, NumberEnd(s, i))

\* the first decimal number of s in units, 0 when it has none
FirstNumber(s) ==
    IF \A i \in 1..Len(s) : ~IsDigit(Ch(s, i)) THEN 0
    ELSE LET i == CHOOSE k \in 1..Len(s) :
                     IsDigit(Ch(s, k)) /\ \A j \in 1..(k - 1) : ~IsDigit(Ch(s, j))
         IN  NumberUnits(s, i, NumberEnd(s, i))

\* the minutes of a text by the stages in their order
StagedMinutes(s) ==
    IF PyFloat(s).ok THEN PyFloat(s).v
    ELSE IF ColonTime(s, 3)
    THEN (Field(s, 1) * 60 + Field(s, 2)) * MinuteUnits + Field(s, 3) * (MinuteUnits \div 60)
    ELSE IF ColonTime(s, 2)
    THEN Field(s, 1) * MinuteUnits + Field(s, 2) * (MinuteUnits \div 60)
    ELSE IF HasQuantity(s, HourWords) \/ HasQuantity(s, MinuteWords)
    THEN (IF HasQuantity(s, HourWords) THEN 60 * FirstQuantity(s, HourWords) ELSE 0)
         + (IF HasQuantity(s, MinuteWords) THEN FirstQuantity(s, MinuteWords) ELSE 0)
    ELSE FirstNumber(s)

\* C23: parse_duration_to_minutes applies its fallbacks in the order numeric,
\* colon time, unit words, first number: a number or a numeric string is
\* returned unchanged as minutes; "H:M:S" gives H*60 + M + S/60; "A:B" is
\* minutes:seconds and gives A + B/60; a string with hour or minute unit words
\* gives the sum of the units present; any other string gives its first decimal
\* number, or 0 when it has none.  An earlier stage that succeeds takes
\* precedence over a later one.
C23_OrderedFallbacks ==
    Returned_("parse_duration_to_minutes") =>
        /\ run.arg.t = "num" => run.value = run.arg.n * MinuteUnits
        /\ run.arg.t = "str" =>
              /\ run.value = StagedMinutes(Strip(run.arg.s))
              /\ AllDigits(Strip(run.arg.s)) =>
                    run.value = NatOf(Strip(run.arg.s), 1, Len(Strip(run.arg.s)) + 1) * MinuteUnits

\* "1:30:00" has been parsed to 90 minutes
C23_Witness ==
    /\ Returned_("parse_duration_to_minutes")
    /\ run.arg = Str("1:30:00")
    /\ run.value = 90 * MinuteUnits

\* the text is "a<sep>b<sep>yyyy": one or two digits, one or two digits, four
NumericDate(s, sep) ==
    LET fs == FieldsFrom(s, sep, 1, 1)
    IN  /\ Len(fs) = 3
        /\ AllDigits(fs[1]) /\ Len(fs[1]) <= 2
        /\ AllDigits(fs[2]) /\ Len(fs[2]) <= 2
        /\ AllDigits(fs[3]) /\ Len(fs[3]) = 4

FieldOf(s, sep, k) ==
    LET f == FieldsFrom(s, sep, 1, 1)[k] IN NatOf(f, 1, Len(f) + 1)

\* year y has a day d in month m
IsDate(y, m, d) == y >= 1 /\ m \in 1..12 /\ d >= 1 /\ d <= DaysInMonth(y, m)

\* the reading of "a<sep>b<sep>yyyy": day first, month first only when the day
\* first reading is no date
DayFirstReading(s, sep) ==
    LET a == FieldOf(s, sep, 1)
        b == FieldOf(s, sep, 2)
        y == FieldOf(s, sep, 3)
    IN  IF IsDate(y, b, a) THEN <<y, b, a>>
        ELSE IF IsDate(y, a, b) THEN <<y, a, b>>
        ELSE None

\* C24: parse_date resolves ambiguous numeric dates day-first: "a-b-yyyy" or
\* "a/b/yyyy" with a and b both in 1..12 has day a and month b; the month-first
\* reading is used only when the day-first reading is not a valid date (b > 12)
\* and a is a valid month.  The first format of the list that parses the whole
\* string determines the result.
C24_DayFirst ==
    (Returned_("parse_date") /\ run.arg.t = "str") =>
        \A sep \in {"-", "/"} :
            NumericDate(Strip(run.arg.s), sep) =>
                LET a == FieldOf(Strip(run.arg.s), sep, 1)
                    b == FieldOf(Strip(run.arg.s), sep, 2)
                    y == FieldOf(Strip(run.arg.s), sep, 3)
                IN  /\ run.value = DayFirstReading(Strip(run.arg.s), sep)
                    /\ (a \in 1..12 /\ b \in 1..12 /\ y >= 1) => run.value = <<y, b, a>>
                    /\ (run.value # None /\ run.value[2] = a /\ a # b) => b > 12

\* 2 January 2025 was read from "02/01/2025", and 13 January from "1/13/2025"
C24_Witness ==
    /\ Returned_("parse_date")
    /\ \/ run.arg = Str("02/01/2025") /\ run.value = <<2025, 1, 2>>
       \/ run.arg = Str("1/13/2025") /\ run.value = <<2025, 1, 13>>

\* the field keys of the table the resolver is for
FieldKeys(fn) == {KeysOf(fn)[k] : k \in 1..Len(KeysOf(fn))}

\* the keys can be given distinct positions of the header row that carry the
\* headers they are mapped to
DistinctHeaders(col_map, columns) ==
    \E pos \in [Keys(col_map) -> 1..Len(columns)] :
        /\ \A k \in Keys(col_map) : columns[pos[k]] = col_map[k]
        /\ \A k1, k2 \in Keys(col_map) : k1 # k2 => pos[k1] # pos[k2]

\* C25: for every header list detect_registration_columns and
\* detect_zoom_columns return a mapping whose keys all belong to the fixed
\* field keys of the table, whose values are headers of the table and in which
\* no header is assigned to two keys; a key with no matching header is absent.
C25_DetectWellFormed ==
    Detected =>
        /\ Keys(run.value) \subseteq FieldKeys(run.fn)
        /\ \A k \in Keys(run.value) :
              \E i \in 1..Len(run.arg.columns) : run.arg.columns[i] = run.value[k]
        /\ Keys(run.value) # {} => DistinctHeaders(run.value, run.arg.columns)
        /\ (\A i, j \in 1..Len(run.arg.columns) : i # j => run.arg.columns[i] # run.arg.columns[j])
              => \A k1, k2 \in Keys(run.value) : k1 # k2 => run.value[k1] # run.value[k2]
        /\ \A key \in FieldKeys(run.fn) :
              (\A i \in 1..Len(run.arg.columns) : ~Keyword(run.fn, key, run.arg.columns[i]))
                  => key \notin Keys(run.value)

\* a header that matches two rules got one key, and a header without a match
\* got none
C25_Witness ==
    /\ Returned_("detect_registration_columns")
    /\ run.arg.columns = <<"Training_Date Attendance Day 1", "Notes">>
    /\ Keys(run.value) = {"Training date"}

\* the identities listed as unmatched, and those of the in-scope rows
UnmatchedListed ==
    {Result.unmatched_zoom_emails[k] : k \in 1..Len(Result.unmatched_zoom_emails)}

InScopeIdentities == {RosterIdentity(i) : i \in InScope}

\* C26: after a completed run the aggregate keys are partitioned by the roster
\* scope: every aggregate key is the identity of an in-scope roster row or is
\* listed in unmatched_zoom_emails, never both; the length of
\* unmatched_zoom_emails plus the number of distinct in-scope identities with
\* an aggregate entry is total_zoom_participants; no unmatched identity belongs
\* to a row counted as present or below the threshold.
C26_AggregatePartition ==
    Completed =>
        /\ Keys(Aggregate) = (InScopeIdentities \cap Keys(Aggregate)) \cup UnmatchedListed
        /\ InScopeIdentities \cap UnmatchedListed = {}
        /\ Len(Result.unmatched_zoom_emails)
              + Cardinality(InScopeIdentities \cap Keys(Aggregate))
              = Result.total_zoom_participants
        /\ \A i \in PresentRows \cup BelowRows : RosterIdentity(i) \notin UnmatchedListed

\* one identity of the log is on an in-scope row and another is unmatched
C26_Witness ==
    /\ Completed
    /\ Result.total_zoom_participants = 2
    /\ Len(Result.unmatched_zoom_emails) = 1
    /\ PresentRows \cup BelowRows # {}

(***************************************************************************)
(* The GUI (gui.py, column_mapping_dialog.py).  In this specification run  *)
(* is the AttendanceApp object (self) with the widgets the handlers        *)
(* change, reg_col_map and zoom_col_map are self.reg_col_map and           *)
(* self.zoom_col_map, reg_file and zoom_file are the files the user picks, *)
(* and prev is what runs beside the main thread: the worker threads in     *)
(* flight, the callbacks scheduled with root.after and, for every run      *)
(* started, what became of it.  A handler runs to its end on the main      *)
(* thread before the next event is taken.  The mapping dialog is modal: it *)
(* lets no click through to the main window, the handler stores nothing    *)
(* before it closes, and a callback delivered while it is open writes      *)
(* nothing the handler reads, so a browse is one step.                     *)
(***************************************************************************)
NOT_MAPPED == "-- Not Mapped --"

\* the field specs: key and required
REGISTRATION_FIELDS ==
    << [key |-> "Email", required |-> TRUE],
       [key |-> "Training date", required |-> TRUE],
       [key |-> "Attendance - Day 1", required |-> FALSE],
       [key |-> "Attendance - Day 2", required |-> FALSE],
       [key |-> "Name", required |-> FALSE],
       [key |-> "Version", required |-> FALSE] >>

ZOOM_FIELDS ==
    << [key |-> "Email", required |-> TRUE],
       [key |-> "Duration", required |-> TRUE],
       [key |-> "Name", required |-> FALSE] >>

SpecKeys(field_specs) == {field_specs[k].key : k \in 1..Len(field_specs)}

\* Confirm enabled whatever the combos show
ConfirmAlwaysEnabled(combos, field_specs) == TRUE

\* _update_status: Confirm is enabled unless a required field is 'Not Mapped'
ConfirmEnabled(combos, field_specs) ==
    \A k \in 1..Len(field_specs) :
        field_specs[k].required => combos[field_specs[k].key] # NOT_MAPPED

\* _build_dialog: every combo shows the auto-detected column, or 'Not Mapped'
Prefill(csv_columns, field_specs, auto_detected) ==
    [key \in SpecKeys(field_specs) |->
        IF key \in Keys(auto_detected)
           /\ \E i \in 1..Len(csv_columns) : csv_columns[i] = auto_detected[key]
        THEN auto_detected[key] ELSE NOT_MAPPED]

\* what the combos can show when the user is done: the pre-filled values with
\* at most one combo set to 'Not Mapped'
Selections(csv_columns, field_specs, auto_detected) ==
    LET combos == Prefill(csv_columns, field_specs, auto_detected)
    IN  {combos} \cup {[combos EXCEPT ![key] = NOT_MAPPED] : key \in SpecKeys(field_specs)}

\* _on_confirm: the col_map of the fields that are mapped
OnConfirm(combos) ==
    [key \in {k \in DOMAIN combos : combos[k] # NOT_MAPPED} |-> combos[key]]

\* dialog.result: None after Cancel, the col_map after Confirm
ColumnMappingDialog(csv_columns, field_specs, auto_detected) ==
    {NoMap} \cup {Dict(OnConfirm(combos)) :
                    combos \in {c \in Selections(csv_columns, field_specs, auto_detected) :
                                   ConfirmEnabled(c, field_specs)}}

\* get_unique_programs
get_unique_programs(df, col_map) ==
    IF "Version" \notin Keys(col_map) THEN {}
    ELSE {PyStr(df.rows[i][col_map["Version"]]) :
             i \in {j \in 1..NRows(df) : ~IsNa(df.rows[j][col_map["Version"]])}}

\* self.output_dir: None or a directory
NoDir == [given |-> FALSE, path |-> ""]

Dir(path) == [given |-> TRUE, path |-> path]

\* the date the date picker shows
Today == <<2025, 1, 15>>

\* the number of background runs a behaviour starts
MaxRuns == 2

\* AttendanceApp.__init__
AttendanceApp ==
    [reg_filepath |-> "", zoom_filepath |-> "",
     attendance_day |-> 1, program_var |-> "All", program_values |-> {"All"},
     output_dir |-> NoDir,
     steps |-> <<"active", "inactive", "inactive">>,
     summary_frame |-> "hidden", open_folder_btn |-> "disabled",
     process_btn |-> "packed", progress_bar |-> "stopped"]

\* no worker, no scheduled callback, no run started
NoThreads == [workers |-> <<>>, after |-> <<>>, runs |-> <<>>]

InitGui ==
    /\ reg_file = RegFile(TRUE, Table(RegColumns, SubSeq(RosterList, 1, MaxRosterRows)))
    /\ zoom_file = ZoomFile(TRUE, Table(ZoomColumns, SubSeq(ZoomList, 1, MaxZoomRows)))
    /\ reg_col_map = NoMap
    /\ zoom_col_map = NoMap
    /\ run = AttendanceApp
    /\ prev = NoThreads

\* _update_step(step_index, state)
UpdateStep(app, step_index, state) == [app EXCEPT !.steps[step_index + 1] = state]

\* _check_files_loaded
CheckFilesLoaded(app, reg_map, zoom_map) ==
    IF reg_map.given /\ zoom_map.given
    THEN UpdateStep(UpdateStep(app, 0, "completed"), 1, "active")
    ELSE app

\* the app replaced or dropped its roster mapping: a worker in flight keeps the
\* dict it was given, which is no longer self.reg_col_map
Unshare(threads) ==
    [threads EXCEPT !.workers = [k \in 1..Len(@) |-> [@[k] EXCEPT !.shares_reg = FALSE]]]

\* _browse_registration: the file dialog, read_csv_safe, the mapping dialog
BrowseRegistration ==
    \E result \in ColumnMappingDialog(reg_file.df.columns, REGISTRATION_FIELDS,
                                      detect_registration_columns(reg_file.df)) :
        /\ read_csv_safe(reg_file).ok
        /\ result.given
        /\ reg_col_map' = result
        /\ run' = CheckFilesLoaded(
                     [run EXCEPT !.reg_filepath = reg_file.path,
                                 !.program_values =
                                     {"All"} \cup get_unique_programs(reg_file.df, result.m),
                                 !.program_var = "All"],
                     result, zoom_col_map)
        /\ prev' = Unshare(prev)
        /\ UNCHANGED <<reg_file, zoom_file, zoom_col_map>>

\* _browse_zoom
BrowseZoom ==
    \E result \in ColumnMappingDialog(zoom_file.df.columns, ZOOM_FIELDS,
                                      detect_zoom_columns(zoom_file.df)) :
        /\ read_csv_safe(zoom_file).ok
        /\ result.given
        /\ zoom_col_map' = result
        /\ run' = CheckFilesLoaded([run EXCEPT !.zoom_filepath = zoom_file.path],
                                   reg_col_map, result)
        /\ UNCHANGED <<reg_file, zoom_file, reg_col_map, prev>>

\* _on_segment_click(value)
OnSegmentClick ==
    \E value \in AttendanceDays :
        /\ run' = [run EXCEPT !.attendance_day = value]
        /\ UNCHANGED <<reg_file, zoom_file, reg_col_map, zoom_col_map, prev>>

\* the program drop-down
SelectProgram ==
    \E value \in run.program_values :
        /\ run' = [run EXCEPT !.program_var = value]
        /\ UNCHANGED <<reg_file, zoom_file, reg_col_map, zoom_col_map, prev>>

\* the validation of _process_attendance passes
InputsValid ==
    /\ run.reg_filepath # ""
    /\ run.zoom_filepath # ""
    /\ reg_col_map.given
    /\ zoom_col_map.given

\* a click on 'Mark Attendance' wherever the button is
ButtonAlwaysThere == TRUE

\* 'Mark Attendance' can be clicked: the button is packed
ButtonThere == run.process_btn = "packed"

\* _process_attendance: the button clicked; the worker thread is started
ProcessAttendance ==
    /\ ButtonThere
    /\ Len(prev.runs) < MaxRuns
    /\ InputsValid
    /\ run' = [UpdateStep(UpdateStep(run, 1, "completed"), 2, "active")
                  EXCEPT !.process_btn = "forgotten", !.progress_bar = "running",
                         !.summary_frame = "hidden"]
    /\ prev' = [prev EXCEPT
                  !.workers = Append(@,
                      [id |-> Len(prev.runs) + 1,
                       reg_filepath |-> run.reg_filepath,
                       zoom_filepath |-> run.zoom_filepath,
                       p |-> [selected_date |-> Today,
                              attendance_day |-> run.attendance_day,
                              program_filter |-> IF run.program_var # "All"
                                                 THEN run.program_var ELSE "",
                              min_duration |-> DefaultMinDuration],
                       reg_col_map_override |-> reg_col_map,
                       zoom_col_map_override |-> zoom_col_map,
                       shares_reg |-> TRUE]),
                  !.runs = Append(@, "started")]
    /\ UNCHANGED <<reg_file, zoom_file, reg_col_map, zoom_col_map>>

\* _run_processing on the worker thread: the engine, then root.after(0, ...)
RunProcessing ==
    /\ Len(prev.workers) > 0
    /\ \E write_ok \in BOOLEAN :
          LET w == prev.workers[1]
              override == IF w.shares_reg THEN reg_col_map ELSE w.reg_col_map_override
              call == process_attendance(reg_file, zoom_file, w.p, override,
                                         w.zoom_col_map_override, write_ok)
          IN  /\ reg_col_map' = IF w.shares_reg THEN call.reg_col_map_after ELSE reg_col_map
              /\ prev' = [prev EXCEPT
                            !.workers = Tail(@),
                            !.after = Append(@,
                                IF call.outcome = "returned"
                                THEN [id |-> w.id, callback |-> "_on_processing_complete",
                                      result |-> call.result]
                                ELSE [id |-> w.id, callback |-> "_on_processing_error",
                                      result |-> AttendanceResult])]
    /\ UNCHANGED <<reg_file, zoom_file, zoom_col_map, run>>

\* _on_processing_complete(result)
OnProcessingComplete(app, result) ==
    LET restored == [app EXCEPT !.progress_bar = "stopped", !.process_btn = "packed"]
    IN  IF Len(result.errors) > 0 THEN UpdateStep(restored, 2, "active")
        ELSE LET shown == UpdateStep([restored EXCEPT !.summary_frame = "shown"], 2, "completed")
             IN  IF result.output_filepath # ""
                 THEN [shown EXCEPT !.output_dir = Dir(DirName(result.output_filepath)),
                                    !.open_folder_btn = "normal"]
                 ELSE shown

\* _on_processing_error(error_msg)
OnProcessingError(app) ==
    UpdateStep([app EXCEPT !.progress_bar = "stopped", !.process_btn = "packed"], 2, "active")

\* the main loop runs the callback scheduled first.  The lambda of the except
\* branch reads the name e of `except Exception as e` when it is called: the
\* worker unbinds e when it leaves the except block, so the call raises
\* NameError and _on_processing_error does not run, unless the main thread
\* called the lambda before the worker got that far.
DeliverCallback ==
    /\ Len(prev.after) > 0
    /\ LET cb == prev.after[1]
       IN  \/ /\ cb.callback = "_on_processing_complete"
              /\ run' = OnProcessingComplete(run, cb.result)
              /\ prev' = [prev EXCEPT !.after = Tail(@), !.runs[cb.id] = "complete"]
           \/ /\ cb.callback = "_on_processing_error"
              /\ run' = OnProcessingError(run)
              /\ prev' = [prev EXCEPT !.after = Tail(@), !.runs[cb.id] = "error"]
           \/ /\ cb.callback = "_on_processing_error"
              /\ run' = run
              /\ prev' = [prev EXCEPT !.after = Tail(@), !.runs[cb.id] = "NameError"]
    /\ UNCHANGED <<reg_file, zoom_file, reg_col_map, zoom_col_map>>

\* _reset_session: 'New Session'
ResetSession ==
    /\ run' = [run EXCEPT !.reg_filepath = "", !.zoom_filepath = "",
                          !.output_dir = NoDir,
                          !.attendance_day = 1, !.program_var = "All",
                          !.program_values = {"All"},
                          !.steps = <<"active", "inactive", "inactive">>,
                          !.summary_frame = "hidden", !.open_folder_btn = "disabled"]
    /\ reg_col_map' = NoMap
    /\ zoom_col_map' = NoMap
    /\ prev' = Unshare(prev)
    /\ UNCHANGED <<reg_file, zoom_file>>

NextGui ==
    \/ BrowseRegistration
    \/ BrowseZoom
    \/ OnSegmentClick
    \/ SelectProgram
    \/ ProcessAttendance
    \/ RunProcessing
    \/ DeliverCallback
    \/ ResetSession

\* a started worker thread runs on
WorkerRunsOn == []<>(Len(prev.workers) = 0)

\* the main loop keeps taking the scheduled callbacks
MainLoopRunsOn == []<>(Len(prev.after) = 0)

\* RunProcessing is enabled exactly when a worker exists and DeliverCallback
\* exactly when a callback is scheduled, and each shortens its queue: the two
\* conditions are WF_vars(RunProcessing) and WF_vars(DeliverCallback)
SpecGui ==
    /\ InitGui
    /\ [][NextGui]_vars
    /\ WorkerRunsOn
    /\ MainLoopRunsOn

\* a worker thread is in flight from the start of a run to the call of its
\* callback on the main thread
InFlight == {r \in 1..Len(prev.runs) : prev.runs[r] = "started"}

\* the mappings the dialogs can return for the files of the user
DialogResults ==
    [reg |-> ColumnMappingDialog(reg_file.df.columns, REGISTRATION_FIELDS,
                                 detect_registration_columns(reg_file.df)),
     zoom |-> ColumnMappingDialog(zoom_file.df.columns, ZOOM_FIELDS,
                                  detect_zoom_columns(zoom_file.df))]

\* the mapping has every required key of the field specs and maps to headers
WellFormedMapping(col_map, field_specs, csv_columns) ==
    /\ \A k \in 1..Len(field_specs) : field_specs[k].required => field_specs[k].key \in Keys(col_map)
    /\ \A key \in Keys(col_map) : \E i \in 1..Len(csv_columns) : csv_columns[i] = col_map[key]

\* the error of a loader that misses a required column
MissingRequiredError(result) ==
    \E k \in 1..Len(result.errors) : Contains(result.errors[k], "Missing required columns")

\* C27: in the GUI a background run starts only when both file paths are set
\* and both confirmed mappings are not None; every mapping the dialog returns
\* has every required key of its table and maps only to headers of that table
\* (Cancel returns None); hence no run started from the GUI fails with a
\* missing-required-column error.
C27_RunsOnlyWithConfirmedMappings ==
    /\ \A k \in 1..Len(prev.workers) :
          /\ prev.workers[k].reg_col_map_override.given
          /\ prev.workers[k].zoom_col_map_override.given
    /\ \A k \in 1..Len(prev.workers) :
          prev.workers[k].reg_filepath # "" /\ prev.workers[k].zoom_filepath # ""
    /\ NoMap \in DialogResults.reg /\ NoMap \in DialogResults.zoom
    /\ \A result \in DialogResults.reg \ {NoMap} :
          WellFormedMapping(result.m, REGISTRATION_FIELDS, reg_file.df.columns)
    /\ \A result \in DialogResults.zoom \ {NoMap} :
          WellFormedMapping(result.m, ZOOM_FIELDS, zoom_file.df.columns)
    /\ reg_col_map.given =>
          /\ run.reg_filepath # ""
          /\ \A k \in 1..Len(REGISTRATION_FIELDS) :
                REGISTRATION_FIELDS[k].required => REGISTRATION_FIELDS[k].key \in Keys(reg_col_map.m)
    /\ zoom_col_map.given =>
          /\ run.zoom_filepath # ""
          /\ WellFormedMapping(zoom_col_map.m, ZOOM_FIELDS, zoom_file.df.columns)
    /\ \A k \in 1..Len(prev.after) : ~MissingRequiredError(prev.after[k].result)

\* a run started with a mapping from which the user removed an optional field
\* has returned its result
C27_Witness ==
    /\ Len(prev.after) > 0
    /\ prev.after[1].callback = "_on_processing_complete"
    /\ prev.after[1].result.errors = <<>>
    /\ "Version" \notin Keys(reg_col_map.m)
    /\ reg_col_map.given /\ zoom_col_map.given

\* C28: in the GUI at most one background thread is in flight at any time:
\* from the start of a worker until its callback runs on the main thread the
\* 'Mark Attendance' button is not available, whatever the user does meanwhile.
C28_OneWorkerInFlight ==
    /\ Cardinality(InFlight) <= 1
    /\ Len(prev.workers) + Len(prev.after) <= 1
    /\ InFlight # {} => run.process_btn = "forgotten"

\* the user started a new session and loaded the files again while the worker
\* of the run before was still in flight
C28_Witness ==
    /\ InFlight # {}
    /\ Len(prev.workers) = 1
    /\ ~prev.workers[1].shares_reg
    /\ reg_col_map.given /\ zoom_col_map.given
    /\ run.process_btn = "forgotten"

\* the run was followed by a call of one of the two handlers
CalledBack(r) == r \in DOMAIN prev.runs /\ prev.runs[r] \in {"complete", "error"}

\* the step in which the callback of run r is taken from the event queue
CallbackOf(r) == r \in InFlight /\ prev'.runs[r] # "started"

\* C29: every background run started by the GUI is eventually followed by
\* exactly one call of _on_processing_complete (the engine returned) or of
\* _on_processing_error (the engine raised); that call stops the progress bar
\* and restores the 'Mark Attendance' button, and step 3 becomes 'completed'
\* only when the result has no errors and is left 'active' otherwise.
C29_EveryRunCalledBack ==
    /\ \A r \in 1..MaxRuns : (r \in InFlight) ~> CalledBack(r)
    /\ [][\A r \in 1..MaxRuns : CallbackOf(r) =>
             /\ prev'.runs[r] \in {"complete", "error"}
             /\ run'.progress_bar = "stopped"
             /\ run'.process_btn = "packed"
             /\ run'.steps[3] = IF /\ prev.after[1].callback = "_on_processing_complete"
                                   /\ prev.after[1].result.errors = <<>>
                                THEN "completed" ELSE "active"]_vars

\* no files are loaded: both confirmed mappings are None
NoFilesLoaded == ~reg_col_map.given /\ ~zoom_col_map.given

\* C30: in every reachable state of the GUI in which no files are loaded the
\* steps are [active, inactive, inactive], the summary dashboard is hidden,
\* output_dir is None and 'Open Output Folder' is disabled, also when 'New
\* Session' is clicked while a run is in flight and its callback comes later.
C30_ResetStateWhenNoFiles ==
    NoFilesLoaded =>
        /\ run.steps = <<"active", "inactive", "inactive">>
        /\ run.summary_frame = "hidden"
        /\ run.output_dir = NoDir
        /\ run.open_folder_btn = "disabled"

====
